---- MODULE Spec2Model ----
(***************************************************************************)
(* A model of keyboard.Handler (src/keyboard/handler.go): the byte-to-key  *)
(* decoder (processByte and the parsers it calls), the ambiguity timer of  *)
(* processLoop, bracketed paste, line assembly and the Keys/Lines queues.  *)
(*                                                                         *)
(* Go strings and []byte values are sequences of bytes (0..255); a key     *)
(* name such as "Up" is the sequence of its ASCII codes, written B("Up").  *)
(***************************************************************************)
EXTENDS Integers, Sequences, FiniteSets, TLC

\* ------------------------------------------------------------------------
\* Byte strings
\* ------------------------------------------------------------------------

\* The printable ASCII characters in code order, 0x20 .. 0x5F and 0x61 .. 0x7E
\* (a TLA+ string cannot hold the backquote, 0x60: it is written <<96>>).
AsciiLow == " !\"#$%&'()*+,-./0123456789:;<=>?@ABCDEFGHIJKLMNOPQRSTUVWXYZ[\\]^_"

AsciiHigh == "abcdefghijklmnopqrstuvwxyz{|}~"

\* The byte of a one-character string.
Ord(c) ==
    IF \E i \in 1..Len(AsciiLow) : SubSeq(AsciiLow, i, i) = c
    THEN 31 + (CHOOSE i \in 1..Len(AsciiLow) : SubSeq(AsciiLow, i, i) = c)
    ELSE 96 + (CHOOSE i \in 1..Len(AsciiHigh) : SubSeq(AsciiHigh, i, i) = c)

\* The bytes of a Go string literal of printable ASCII characters.
B(s) == [i \in 1..Len(s) |-> Ord(SubSeq(s, i, i))]

\* The bytes of the Go literal "\x1b" + s.
E(s) == <<27>> \o B(s)

\* s[from:] and s[:to] with Go's 0-based indices.
From(s, from) == SubSeq(s, from + 1, Len(s))

Upto(s, to) == SubSeq(s, 1, to)

\* strings.Index(s, ":") and the like: the 0-based index of the first byte c, or -1.
IndexByte(s, c) ==
    IF \E i \in 1..Len(s) : s[i] = c
    THEN (CHOOSE i \in 1..Len(s) : s[i] = c /\ \A j \in 1..(i - 1) : s[j] # c) - 1
    ELSE -1

\* Bit k of x in two's complement (x & (1 << k) != 0).
Bit(x, k) == ((x \div (2 ^ k)) % 2) = 1

\* byte(x): the conversion of an int to a byte keeps the low 8 bits.
ToByte(x) == x % 256

IsDigit(c) == c >= 48 /\ c <= 57

RECURSIVE Concat(_)
\* The concatenation of a sequence of byte strings.
Concat(ss) == IF ss = << >> THEN << >> ELSE Head(ss) \o Concat(Tail(ss))

\* ------------------------------------------------------------------------
\* unicode/utf8 and fmt, as the handler uses them
\* ------------------------------------------------------------------------

RuneError == 65533

IsCont(b) == b >= 128 /\ b <= 191

\* string(rune(r)), string(b) for a byte b, and the %c verb: the UTF-8 encoding
\* of code point r; surrogates and values out of range encode U+FFFD.
EncodeRune(r) ==
    IF r < 0 \/ r > 1114111 \/ (r >= 55296 /\ r <= 57343) THEN <<239, 191, 189>>
    ELSE IF r < 128 THEN <<r>>
    ELSE IF r < 2048 THEN <<192 + (r \div 64), 128 + (r % 64)>>
    ELSE IF r < 65536
         THEN <<224 + (r \div 4096), 128 + ((r \div 64) % 64), 128 + (r % 64)>>
    ELSE <<240 + (r \div 262144), 128 + ((r \div 4096) % 64),
           128 + ((r \div 64) % 64), 128 + (r % 64)>>

\* utf8.RuneLen
RuneLen(r) ==
    IF r < 0 THEN -1
    ELSE IF r < 128 THEN 1
    ELSE IF r < 2048 THEN 2
    ELSE IF r >= 55296 /\ r <= 57343 THEN -1
    ELSE IF r < 65536 THEN 3
    ELSE IF r <= 1114111 THEN 4
    ELSE -1

\* utf8.DecodeRune / utf8.DecodeRuneInString: the first rune of p and its
\* width; (RuneError, 0) for the empty string and (RuneError, 1) for an
\* encoding that is invalid, overlong, a surrogate, out of range or cut short.
DecodeRune(p) ==
    LET n == Len(p)
        bad == [r |-> RuneError, size |-> 1]
        lo2 == IF p[1] = 224 THEN 160 ELSE IF p[1] = 240 THEN 144 ELSE 128
        hi2 == IF p[1] = 237 THEN 159 ELSE IF p[1] = 244 THEN 143 ELSE 191
    IN  IF n = 0 THEN [r |-> RuneError, size |-> 0]
        ELSE IF p[1] < 128 THEN [r |-> p[1], size |-> 1]
        ELSE IF p[1] < 194 \/ p[1] > 244 THEN bad
        ELSE IF n < 2 \/ p[2] < lo2 \/ p[2] > hi2 THEN bad
        ELSE IF p[1] < 224
             THEN [r |-> (p[1] % 32) * 64 + (p[2] % 64), size |-> 2]
        ELSE IF n < 3 \/ ~IsCont(p[3]) THEN bad
        ELSE IF p[1] < 240
             THEN [r |-> (p[1] % 16) * 4096 + (p[2] % 64) * 64 + (p[3] % 64),
                   size |-> 3]
        ELSE IF n < 4 \/ ~IsCont(p[4]) THEN bad
        ELSE [r |-> (p[1] % 8) * 262144 + (p[2] % 64) * 4096
                    + (p[3] % 64) * 64 + (p[4] % 64),
              size |-> 4]

RECURSIVE Digits(_)
\* The decimal digits of n >= 0.
Digits(n) == IF n < 10 THEN <<48 + n>> ELSE Digits(n \div 10) \o <<48 + (n % 10)>>

\* The %d verb of fmt.Sprintf.
Itoa(n) == IF n < 0 THEN <<45>> \o Digits(0 - n) ELSE Digits(n)

RECURSIVE DigitsValue(_, _)
\* The value of the decimal digits s, continuing from acc.
DigitsValue(s, acc) ==
    IF s = << >> THEN acc ELSE DigitsValue(Tail(s), acc * 10 + (Head(s) - 48))

\* Atoi that never succeeds.
AtoiFails(s) == [ok |-> FALSE, n |-> 0]

\* strconv.Atoi: an optional sign and at least one digit, or an error.
Atoi(s) ==
    LET signed == Len(s) > 0 /\ s[1] \in {43, 45}
        ds     == IF signed THEN Tail(s) ELSE s
    IN  IF ds = << >> \/ \E i \in 1..Len(ds) : ~IsDigit(ds[i])
        THEN [ok |-> FALSE, n |-> 0]
        ELSE [ok |-> TRUE,
              n  |-> IF signed /\ s[1] = 45 THEN 0 - DigitsValue(ds, 0)
                     ELSE DigitsValue(ds, 0)]

\* ------------------------------------------------------------------------
\* Static tables
\* ------------------------------------------------------------------------

\* escBindings: escape sequence |-> key name.
escBindings ==
       (E("[A") :> B("Up"))
    @@ (E("[B") :> B("Down"))
    @@ (E("[C") :> B("Right"))
    @@ (E("[D") :> B("Left"))
    @@ (E("[1;2A") :> B("S-Up"))
    @@ (E("[1;2B") :> B("S-Down"))
    @@ (E("[1;2C") :> B("S-Right"))
    @@ (E("[1;2D") :> B("S-Left"))
    @@ (E("[1;3A") :> B("M-Up"))
    @@ (E("[1;3B") :> B("M-Down"))
    @@ (E("[1;3C") :> B("M-Right"))
    @@ (E("[1;3D") :> B("M-Left"))
    @@ (E("[1;5A") :> B("C-Up"))
    @@ (E("[1;5B") :> B("C-Down"))
    @@ (E("[1;5C") :> B("C-Right"))
    @@ (E("[1;5D") :> B("C-Left"))
    @@ (E("OP") :> B("F1"))
    @@ (E("OQ") :> B("F2"))
    @@ (E("OR") :> B("F3"))
    @@ (E("OS") :> B("F4"))
    @@ (E("[15~") :> B("F5"))
    @@ (E("[17~") :> B("F6"))
    @@ (E("[18~") :> B("F7"))
    @@ (E("[19~") :> B("F8"))
    @@ (E("[20~") :> B("F9"))
    @@ (E("[21~") :> B("F10"))
    @@ (E("[23~") :> B("F11"))
    @@ (E("[24~") :> B("F12"))
    @@ (E("[H") :> B("Home"))
    @@ (E("[F") :> B("End"))
    @@ (E("[1~") :> B("Home"))
    @@ (E("[4~") :> B("End"))
    @@ (E("[2~") :> B("Insert"))
    @@ (E("[3~") :> B("Delete"))
    @@ (E("[5~") :> B("PageUp"))
    @@ (E("[6~") :> B("PageDown"))
    @@ (E("OA") :> B("Up"))
    @@ (E("OB") :> B("Down"))
    @@ (E("OC") :> B("Right"))
    @@ (E("OD") :> B("Left"))

\* controlKeys: control byte |-> key name.
controlKeys ==
       (0 :> B("^@"))
    @@ (1 :> B("^A"))
    @@ (2 :> B("^B"))
    @@ (3 :> B("^C"))
    @@ (4 :> B("^D"))
    @@ (5 :> B("^E"))
    @@ (6 :> B("^F"))
    @@ (7 :> B("^G"))
    @@ (8 :> B("Backspace"))
    @@ (9 :> B("Tab"))
    @@ (10 :> B("^J"))
    @@ (11 :> B("^K"))
    @@ (12 :> B("^L"))
    @@ (13 :> B("Enter"))
    @@ (14 :> B("^N"))
    @@ (15 :> B("^O"))
    @@ (16 :> B("^P"))
    @@ (17 :> B("^Q"))
    @@ (18 :> B("^R"))
    @@ (19 :> B("^S"))
    @@ (20 :> B("^T"))
    @@ (21 :> B("^U"))
    @@ (22 :> B("^V"))
    @@ (23 :> B("^W"))
    @@ (24 :> B("^X"))
    @@ (25 :> B("^Y"))
    @@ (26 :> B("^Z"))
    @@ (27 :> B("Escape"))
    @@ (28 :> B("^\\"))
    @@ (29 :> B("^]"))
    @@ (30 :> B("^^"))
    @@ (31 :> B("^_"))
    @@ (127 :> B("Backspace"))

\* macOSOptionChars: code point produced by Option+key |-> key name.
macOSOptionChars ==
       (229 :> B("M-a"))
    @@ (8747 :> B("M-b"))
    @@ (231 :> B("M-c"))
    @@ (8706 :> B("M-d"))
    @@ (180 :> B("M-e"))
    @@ (402 :> B("M-f"))
    @@ (169 :> B("M-g"))
    @@ (729 :> B("M-h"))
    @@ (710 :> B("M-i"))
    @@ (8710 :> B("M-j"))
    @@ (730 :> B("M-k"))
    @@ (172 :> B("M-l"))
    @@ (181 :> B("M-m"))
    @@ (732 :> B("M-n"))
    @@ (248 :> B("M-o"))
    @@ (960 :> B("M-p"))
    @@ (339 :> B("M-q"))
    @@ (174 :> B("M-r"))
    @@ (223 :> B("M-s"))
    @@ (8224 :> B("M-t"))
    @@ (168 :> B("M-u"))
    @@ (8730 :> B("M-v"))
    @@ (8721 :> B("M-w"))
    @@ (8776 :> B("M-x"))
    @@ (165 :> B("M-y"))
    @@ (937 :> B("M-z"))
    @@ (197 :> B("M-A"))
    @@ (305 :> B("M-B"))
    @@ (199 :> B("M-C"))
    @@ (206 :> B("M-D"))
    @@ (207 :> B("M-F"))
    @@ (733 :> B("M-G"))
    @@ (211 :> B("M-H"))
    @@ (212 :> B("M-J"))
    @@ (63743 :> B("M-K"))
    @@ (210 :> B("M-L"))
    @@ (194 :> B("M-M"))
    @@ (216 :> B("M-O"))
    @@ (8719 :> B("M-P"))
    @@ (338 :> B("M-Q"))
    @@ (8240 :> B("M-R"))
    @@ (205 :> B("M-S"))
    @@ (711 :> B("M-T"))
    @@ (9674 :> B("M-V"))
    @@ (8222 :> B("M-W"))
    @@ (731 :> B("M-X"))
    @@ (193 :> B("M-Y"))
    @@ (184 :> B("M-Z"))
    @@ (161 :> B("M-1"))
    @@ (8482 :> B("M-2"))
    @@ (163 :> B("M-3"))
    @@ (162 :> B("M-4"))
    @@ (8734 :> B("M-5"))
    @@ (167 :> B("M-6"))
    @@ (182 :> B("M-7"))
    @@ (8226 :> B("M-8"))
    @@ (170 :> B("M-9"))
    @@ (186 :> B("M-0"))
    @@ (8211 :> B("M--"))
    @@ (8800 :> B("M-="))
    @@ (34 :> B("M-["))
    @@ (8217 :> B("M-]"))
    @@ (171 :> B("M-\\"))
    @@ (8230 :> B("M-;"))
    @@ (230 :> B("M-'"))
    @@ (8804 :> B("M-,"))
    @@ (8805 :> B("M-."))
    @@ (247 :> B("M-/"))
    @@ (96 :> B("M-") \o <<96>>)

\* kittySpecialKeys: Kitty keycode |-> key name.
kittySpecialKeys ==
       (9 :> B("Tab"))
    @@ (13 :> B("Enter"))
    @@ (27 :> B("Escape"))
    @@ (32 :> B("Space"))
    @@ (127 :> B("Backspace"))
    @@ (57358 :> B("CapsLock"))
    @@ (57359 :> B("ScrollLock"))
    @@ (57360 :> B("NumLock"))
    @@ (57361 :> B("PrintScreen"))
    @@ (57362 :> B("Pause"))
    @@ (57363 :> B("Menu"))
    @@ (57364 :> B("F1"))
    @@ (57365 :> B("F2"))
    @@ (57366 :> B("F3"))
    @@ (57367 :> B("F4"))
    @@ (57368 :> B("F5"))
    @@ (57369 :> B("F6"))
    @@ (57370 :> B("F7"))
    @@ (57371 :> B("F8"))
    @@ (57372 :> B("F9"))
    @@ (57373 :> B("F10"))
    @@ (57374 :> B("F11"))
    @@ (57375 :> B("F12"))
    @@ (57376 :> B("F13"))
    @@ (57377 :> B("F14"))
    @@ (57378 :> B("F15"))
    @@ (57379 :> B("F16"))
    @@ (57380 :> B("F17"))
    @@ (57381 :> B("F18"))
    @@ (57382 :> B("F19"))
    @@ (57383 :> B("F20"))
    @@ (57414 :> B("Return"))
    @@ (57417 :> B("Up"))
    @@ (57418 :> B("Down"))
    @@ (57419 :> B("Left"))
    @@ (57420 :> B("Right"))
    @@ (57421 :> B("PageUp"))
    @@ (57422 :> B("PageDown"))
    @@ (57423 :> B("Home"))
    @@ (57424 :> B("End"))
    @@ (57425 :> B("Insert"))
    @@ (57426 :> B("Delete"))

\* kittyModifierKeys: Kitty keycode |-> modifier name and side.
kittyModifierKeys ==
       (57441 :> [name |-> "Shift", side |-> "Left"])
    @@ (57442 :> [name |-> "Ctrl", side |-> "Left"])
    @@ (57443 :> [name |-> "Alt", side |-> "Left"])
    @@ (57444 :> [name |-> "Super", side |-> "Left"])
    @@ (57445 :> [name |-> "Hyper", side |-> "Left"])
    @@ (57446 :> [name |-> "Meta", side |-> "Left"])
    @@ (57447 :> [name |-> "Shift", side |-> "Right"])
    @@ (57448 :> [name |-> "Ctrl", side |-> "Right"])
    @@ (57449 :> [name |-> "Alt", side |-> "Right"])
    @@ (57450 :> [name |-> "Super", side |-> "Right"])
    @@ (57451 :> [name |-> "Hyper", side |-> "Right"])
    @@ (57452 :> [name |-> "Meta", side |-> "Right"])

\* symbolShiftMap: unshifted byte |-> shifted byte.
symbolShiftMap ==
       (96 :> 126)
    @@ (44 :> 60)
    @@ (46 :> 62)
    @@ (47 :> 63)
    @@ (59 :> 58)
    @@ (39 :> 34)
    @@ (91 :> 123)
    @@ (93 :> 125)
    @@ (92 :> 124)
    @@ (45 :> 95)
    @@ (61 :> 43)

\* numberShiftMap: unshifted byte |-> shifted byte.
numberShiftMap ==
       (49 :> 33)
    @@ (50 :> 64)
    @@ (51 :> 35)
    @@ (52 :> 36)
    @@ (53 :> 37)
    @@ (54 :> 94)
    @@ (55 :> 38)
    @@ (56 :> 42)
    @@ (57 :> 40)
    @@ (48 :> 41)

\* ------------------------------------------------------------------------
\* Parsers (pure functions of the escape buffer)
\* ------------------------------------------------------------------------

ESC == 27

bracketedPasteStart == E("[200~")

bracketedPasteEnd == E("[201~")

\* A parser's answer: ok, the key to emit, and the keys it emitted itself
\* (emitKey calls made inside the parser) before returning.
NoMatch == [ok |-> FALSE, key |-> << >>, emits |-> << >>]

Match(key) == [ok |-> TRUE, key |-> key, emits |-> << >>]

\* IsStrictPrefix of a decoder that never waits for the rest of a binding.
IsStrictPrefixNone(seq, key) == FALSE

\* seq is a proper prefix of key (len(seq) < len(key) && key[:len(seq)] == seq).
IsStrictPrefix(seq, key) == Len(seq) < Len(key) /\ Upto(key, Len(seq)) = seq

\* A final byte of a CSI sequence, 0x40 .. 0x7E.
IsFinalByte(b) == b >= 64 /\ b <= 126

\* couldBeEscapePrefix: whether more bytes may still complete seq.
couldBeEscapePrefix(seq) ==
    LET last == seq[Len(seq)]
        body == From(seq, 2)
    IN  IF \E key \in DOMAIN escBindings : IsStrictPrefix(seq, key) THEN TRUE
        ELSE IF Len(seq) >= 2 /\ seq[1] = ESC /\ seq[2] = ESC /\ Len(seq) = 2 THEN TRUE
        ELSE IF Len(seq) >= 2 /\ seq[1] = ESC /\ seq[2] = ESC /\ seq[3] = Ord("[")
             THEN IF Len(seq) < 4 THEN TRUE ELSE ~IsFinalByte(last)
        ELSE IF Len(seq) >= 2 /\ seq[1] = ESC /\ seq[2] = Ord("[")
             THEN IF Len(body) >= 1 /\ body[1] = Ord("<")
                  THEN ~(body[Len(body)] \in {Ord("M"), Ord("m")})
                  ELSE IF Len(body) >= 1 /\ body[1] = Ord("M")
                  THEN Len(body) < 4
                  ELSE IF Len(seq) < 3 THEN TRUE
                  ELSE ~IsFinalByte(last)
        ELSE FALSE

\* The punctuation parseAltSequence names one by one (all but the space).
AltSymbols ==
    {Ord("["), Ord("]"), Ord("{"), Ord("}"), Ord("("), Ord(")"), Ord("<"),
     Ord(">"), Ord("/"), Ord("\\"), Ord("'"), Ord("\""), 96, Ord(","),
     Ord("."), Ord(";"), Ord(":"), Ord("="), Ord("+"), Ord("-"), Ord("_"),
     Ord("!"), Ord("@"), Ord("#"), Ord("$"), Ord("%"), Ord("^"), Ord("&"),
     Ord("*"), Ord("?"), Ord("|"), Ord("~")}

\* parseAltSequence without the implied Shift of an uppercase letter.
parseAltSequenceNoShift(seq) ==
    IF Len(seq) = 2 /\ seq[1] = ESC /\ seq[2] >= 32 /\ seq[2] < 127
    THEN Match(B("M-") \o <<seq[2]>>)
    ELSE NoMatch

\* parseAltSequence: ESC followed by exactly one byte is Alt+that byte.
parseAltSequence(seq) ==
    IF ~(Len(seq) = 2 /\ seq[1] = ESC) THEN NoMatch
    ELSE LET char == seq[2]
         IN  IF char >= Ord("a") /\ char <= Ord("z")
             THEN Match(B("M-") \o EncodeRune(char))
             ELSE IF char >= Ord("A") /\ char <= Ord("Z")
             THEN Match(B("M-S-") \o EncodeRune(char - Ord("A") + Ord("a")))
             ELSE IF IsDigit(char) THEN Match(B("M-") \o EncodeRune(char))
             ELSE IF char \in AltSymbols THEN Match(B("M-") \o <<char>>)
             ELSE IF char = 32 THEN Match(B("M-Space"))
             ELSE IF char = 9 THEN Match(B("M-Tab"))
             ELSE IF char = 13 THEN Match(B("M-Enter"))
             ELSE IF char = 127 \/ char = 8 THEN Match(B("M-Backspace"))
             ELSE IF char = 27 THEN Match(B("M-Escape"))
             ELSE IF char >= 1 /\ char <= 26
             THEN Match(B("M-^") \o EncodeRune(ToByte(Ord("A") + char - 1)))
             ELSE IF char >= 32 /\ char < 127
             THEN Match(B("M-") \o EncodeRune(char))
             ELSE NoMatch

RECURSIVE splitCSIParams(_)
\* splitCSIParams: the fields of params between semicolons; nil for "".
splitCSIParams(params) ==
    IF params = << >> THEN << >>
    ELSE LET i == IndexByte(params, Ord(";"))
         IN  IF i < 0 THEN <<params>>
             ELSE IF i = Len(params) - 1 THEN <<Upto(params, i), << >> >>
             ELSE <<Upto(params, i)>> \o splitCSIParams(From(params, i + 1))

\* modifierPrefix as a wrong decoder would have it: the parameter itself, not
\* the parameter minus one, read as the bitmask.
modifierPrefixNoDecrement(mod) ==
    IF mod < 2 THEN << >>
    ELSE (IF Bit(mod, 0) THEN B("S-") ELSE << >>)
         \o (IF Bit(mod, 1) THEN B("M-") ELSE << >>)
         \o (IF Bit(mod, 2) THEN B("C-") ELSE << >>)
         \o (IF Bit(mod, 3) THEN B("s-") ELSE << >>)

\* modifierPrefix: the xterm modifier parameter as a key-name prefix.
modifierPrefix(mod) ==
    IF mod < 2 THEN << >>
    ELSE LET m == mod - 1
         IN  (IF Bit(m, 0) THEN B("S-") ELSE << >>)
             \o (IF Bit(m, 1) THEN B("M-") ELSE << >>)
             \o (IF Bit(m, 2) THEN B("C-") ELSE << >>)
             \o (IF Bit(m, 3) THEN B("s-") ELSE << >>)

\* parseModifierParam: a decimal parameter; 1 for "", a non-digit or a value < 1.
parseModifierParam(s) ==
    IF s = << >> THEN 1
    ELSE IF \E i \in 1..Len(s) : ~IsDigit(s[i]) THEN 1
    ELSE IF DigitsValue(s, 0) < 1 THEN 1
    ELSE DigitsValue(s, 0)

\* The shape shared by parseModifiedCursorKey, parseModifiedHomeEnd and
\* parseModifiedF1toF4: no parameters, or exactly "<n>;<mod>".
ModifiedNamedKey(baseName, parts) ==
    IF Len(parts) = 0 THEN Match(baseName)
    ELSE IF Len(parts) # 2 THEN NoMatch
    ELSE Match(modifierPrefix(parseModifierParam(parts[2])) \o baseName)

\* parseModifiedCursorKey: ESC [ 1 ; <mod> <A-D>
parseModifiedCursorKey(finalByte, parts) ==
    LET keyNames == (Ord("A") :> B("Up")) @@ (Ord("B") :> B("Down"))
                    @@ (Ord("C") :> B("Right")) @@ (Ord("D") :> B("Left"))
    IN  IF finalByte \notin DOMAIN keyNames THEN NoMatch
        ELSE ModifiedNamedKey(keyNames[finalByte], parts)

\* parseModifiedHomeEnd: ESC [ 1 ; <mod> <H|F>
parseModifiedHomeEnd(finalByte, parts) ==
    LET keyNames == (Ord("H") :> B("Home")) @@ (Ord("F") :> B("End"))
    IN  IF finalByte \notin DOMAIN keyNames THEN NoMatch
        ELSE ModifiedNamedKey(keyNames[finalByte], parts)

\* parseModifiedF1toF4: ESC [ 1 ; <mod> <P-S>
parseModifiedF1toF4(finalByte, parts) ==
    LET keyNames == (Ord("P") :> B("F1")) @@ (Ord("Q") :> B("F2"))
                    @@ (Ord("R") :> B("F3")) @@ (Ord("S") :> B("F4"))
    IN  IF finalByte \notin DOMAIN keyNames THEN NoMatch
        ELSE ModifiedNamedKey(keyNames[finalByte], parts)

\* The tildeKeys table of parseModifiedTildeKey.
tildeKeys ==
       (1 :> B("Home")) @@ (2 :> B("Insert")) @@ (3 :> B("Delete"))
    @@ (4 :> B("End")) @@ (5 :> B("PageUp")) @@ (6 :> B("PageDown"))
    @@ (15 :> B("F5")) @@ (17 :> B("F6")) @@ (18 :> B("F7")) @@ (19 :> B("F8"))
    @@ (20 :> B("F9")) @@ (21 :> B("F10")) @@ (23 :> B("F11")) @@ (24 :> B("F12"))

\* parseModifiedTildeKey: ESC [ <num> ; <mod> ~
parseModifiedTildeKey(parts) ==
    IF Len(parts) = 0 THEN NoMatch
    ELSE LET keyNum == parseModifierParam(parts[1])
         IN  IF keyNum \notin DOMAIN tildeKeys THEN NoMatch
             ELSE IF Len(parts) = 1 THEN Match(tildeKeys[keyNum])
             ELSE IF Len(parts) = 2
             THEN Match(modifierPrefix(parseModifierParam(parts[2]))
                        \o tildeKeys[keyNum])
             ELSE NoMatch

\* The modifier bits of a 1-indexed modifier parameter (mod-- after clamping).
ModBits(mod) == (IF mod < 1 THEN 1 ELSE mod) - 1

\* The Super and Alt prefix of formatLetterKey, formatSymbolKey, formatNumberKey.
SuperAltPrefix(m) ==
    (IF Bit(m, 3) THEN B("s-") ELSE << >>) \o (IF Bit(m, 1) THEN B("M-") ELSE << >>)

\* formatLetterKey: a lowercase letter with modifiers.
formatLetterKey(letter, mod) ==
    LET m       == ModBits(mod)
        upper   == EncodeRune(ToByte(letter - 32))
        keyPart == IF Bit(m, 2)
                   THEN (IF Bit(m, 0) THEN B("S-^") ELSE B("^")) \o upper
                   ELSE IF Bit(m, 0) THEN upper
                   ELSE EncodeRune(letter)
    IN  SuperAltPrefix(m) \o keyPart

\* isSymbolKey: decided on byte(keycode), the low 8 bits of the keycode.
isSymbolKey(keycode) == ToByte(keycode) \in DOMAIN symbolShiftMap

\* isNumberKey
isNumberKey(keycode) == keycode >= Ord("0") /\ keycode <= Ord("9")

\* The shape shared by formatSymbolKey and formatNumberKey.
FormatShiftedKey(char, mod, shiftMap) ==
    LET m           == ModBits(mod)
        displayChar == IF Bit(m, 0) /\ char \in DOMAIN shiftMap
                       THEN shiftMap[char] ELSE char
        keyPart     == IF Bit(m, 2) THEN B("^") \o EncodeRune(displayChar)
                       ELSE EncodeRune(displayChar)
    IN  SuperAltPrefix(m) \o keyPart

\* formatSymbolKey
formatSymbolKey(symbol, mod) == FormatShiftedKey(symbol, mod, symbolShiftMap)

\* formatNumberKey
formatNumberKey(number, mod) == FormatShiftedKey(number, mod, numberShiftMap)

\* The one-letter prefix parseKittyProtocol gives each modifier key.
KittyModifierLetter(name) ==
    CASE name = "Shift" -> B("S")
      [] name = "Ctrl"  -> B("C")
      [] name = "Alt"   -> B("A")
      [] name = "Super" -> B("s")
      [] name = "Meta"  -> B("M")
      [] name = "Hyper" -> B("H")

\* The side of a modifier key as bytes.
KittySide(side) == IF side = "Left" THEN B("Left") ELSE B("Right")

\* parseKittyProtocol: CSI keycode ; modifiers : event_type u.  decodeMacOS is
\* h.decodeMacOSOption.
parseKittyProtocol(parts, decodeMacOS) ==
    IF Len(parts) = 0 THEN NoMatch
    ELSE
    LET idx0       == IndexByte(parts[1], Ord(":"))
        keycodeStr == IF idx0 >= 0 THEN Upto(parts[1], idx0) ELSE parts[1]
        keycode    == parseModifierParam(keycodeStr)
        modPart    == parts[2]
        idx        == IndexByte(modPart, Ord(":"))
        mod        == IF Len(parts) < 2 THEN 1
                      ELSE IF idx >= 0 THEN parseModifierParam(Upto(modPart, idx))
                      ELSE parseModifierParam(modPart)
        et         == Atoi(From(modPart, idx + 1))
        eventType  == IF Len(parts) >= 2 /\ idx >= 0 /\ et.ok THEN et.n ELSE 1
        modSuffix  == CASE eventType = 1 -> B("-Press")
                        [] eventType = 2 -> B("-Repeat")
                        [] eventType = 3 -> B("-Release")
                        [] OTHER -> << >>
        eventSuffix == IF eventType = 3 THEN B(":Release")
                       ELSE IF eventType = 2 THEN B(":Repeat")
                       ELSE << >>
        inTable    == keycode \in DOMAIN kittySpecialKeys
        baseName   == IF inTable THEN kittySpecialKeys[keycode]
                      ELSE EncodeRune(keycode)
        dec        == DecodeRune(baseName)
        decoded    == macOSOptionChars[dec.r]
        baseChar   == From(decoded, 2)
        hasCtrl    == mod > 1 /\ Bit(mod - 1, 2)
        hasShift   == mod > 1 /\ Bit(mod - 1, 0)
        upperBase  == [i \in 1..Len(baseChar) |->
                          IF baseChar[i] >= Ord("a") /\ baseChar[i] <= Ord("z")
                          THEN baseChar[i] - 32 ELSE baseChar[i]]
    IN  IF keycode \in DOMAIN kittyModifierKeys
        THEN Match(KittyModifierLetter(kittyModifierKeys[keycode].name)
                   \o modSuffix \o B(":")
                   \o KittySide(kittyModifierKeys[keycode].side))
        ELSE IF keycode >= Ord("a") /\ keycode <= Ord("z")
        THEN Match(formatLetterKey(ToByte(keycode), mod) \o eventSuffix)
        ELSE IF keycode >= Ord("A") /\ keycode <= Ord("Z")
        THEN Match(formatLetterKey(ToByte(keycode + 32), mod) \o eventSuffix)
        ELSE IF isSymbolKey(keycode)
        THEN Match(formatSymbolKey(ToByte(keycode), mod) \o eventSuffix)
        ELSE IF isNumberKey(keycode)
        THEN Match(formatNumberKey(ToByte(keycode), mod) \o eventSuffix)
        ELSE IF ~inTable /\ ~(keycode >= 32 /\ keycode < 1114112) THEN NoMatch
        ELSE IF /\ decodeMacOS
                /\ Len(baseName) > 0
                /\ dec.size = Len(baseName)
                /\ dec.r # RuneError
                /\ dec.r \in DOMAIN macOSOptionChars
                /\ Len(decoded) >= 3
                /\ decoded[1] = Ord("M")
                /\ decoded[2] = Ord("-")
        THEN Match(B("M-") \o (IF hasShift THEN B("S-") ELSE << >>)
                   \o (IF hasCtrl THEN B("^") \o upperBase ELSE baseChar)
                   \o eventSuffix)
        ELSE IF mod <= 1 THEN Match(baseName \o eventSuffix)
        ELSE Match(modifierPrefix(mod) \o baseName \o eventSuffix)

\* formatMouseEvent: the position key and the action key of a mouse report;
\* a drag has no position key (its position is part of the action key).
formatMouseEvent(cb, cx, cy, isRelease) ==
    LET prefix     == (IF Bit(cb, 2) THEN B("S-") ELSE << >>)
                      \o (IF Bit(cb, 3) THEN B("M-") ELSE << >>)
                      \o (IF Bit(cb, 4) THEN B("C-") ELSE << >>)
        buttonBits == cb % 4
        isMotion   == Bit(cb, 5)
        isScroll   == Bit(cb, 6)
        button     == CASE buttonBits = 0 -> B("Left")
                        [] buttonBits = 1 -> B("Middle")
                        [] buttonBits = 2 -> B("Right")
                        [] OTHER -> << >>
        at         == B("@") \o Itoa(cx) \o B(",") \o Itoa(cy)
    IN  IF isScroll
        THEN [ok |-> TRUE, posKey |-> B("Mouse") \o at,
              actionKey |-> prefix \o (IF buttonBits = 0 THEN B("MouseScrollUp")
                                       ELSE B("MouseScrollDown"))]
        ELSE IF isMotion
        THEN [ok |-> TRUE, posKey |-> << >>,
              actionKey |-> prefix \o B("Mouse") \o button \o B("Drag") \o at]
        ELSE IF isRelease
        THEN [ok |-> TRUE, posKey |-> B("Mouse") \o at,
              actionKey |-> prefix \o B("Mouse") \o button \o B("Release")]
        ELSE [ok |-> TRUE, posKey |-> B("Mouse") \o at,
              actionKey |-> prefix \o B("Mouse") \o button \o B("Press")]

NoMouse == [ok |-> FALSE, posKey |-> << >>, actionKey |-> << >>]

\* parseMouseSGR: ESC [ < Cb ; Cx ; Cy M/m
parseMouseSGR(seq) ==
    LET finalByte == seq[Len(seq)]
        parts     == splitCSIParams(SubSeq(seq, 4, Len(seq) - 1))
    IN  IF Len(seq) < 6 \/ seq[1] # ESC \/ seq[2] # Ord("[") \/ seq[3] # Ord("<")
        THEN NoMouse
        ELSE IF finalByte # Ord("M") /\ finalByte # Ord("m") THEN NoMouse
        ELSE IF Len(parts) # 3 THEN NoMouse
        ELSE formatMouseEvent(parseModifierParam(parts[1]),
                              parseModifierParam(parts[2]),
                              parseModifierParam(parts[3]),
                              finalByte = Ord("m"))

\* parseMouseX10: ESC [ M Cb Cx Cy, each byte biased by 32.
parseMouseX10(seq) ==
    IF Len(seq) # 6 \/ seq[1] # ESC \/ seq[2] # Ord("[") \/ seq[3] # Ord("M")
    THEN NoMouse
    ELSE formatMouseEvent(seq[4] - 32, seq[5] - 32, seq[6] - 32,
                          ((seq[4] - 32) % 4) = 3)

\* MouseEmits with the action key emitted before the position key.
MouseEmitsActionFirst(m) ==
    [ok |-> TRUE, key |-> << >>,
     emits |-> <<m.actionKey>> \o (IF m.posKey # << >> THEN <<m.posKey>> ELSE << >>)]

\* The keys a recognized mouse report emits inside parseModifiedCSI.
MouseEmits(m) ==
    [ok |-> TRUE, key |-> << >>,
     emits |-> (IF m.posKey # << >> THEN <<m.posKey>> ELSE << >>) \o <<m.actionKey>>]

\* The macOS Option+arrow names of parseModifiedCSI (ESC ESC [ X).
optionArrowKeys ==
       (Ord("A") :> B("M-Up")) @@ (Ord("B") :> B("M-Down"))
    @@ (Ord("C") :> B("M-Right")) @@ (Ord("D") :> B("M-Left"))
    @@ (Ord("H") :> B("M-Home")) @@ (Ord("F") :> B("M-End"))

\* parseModifiedCSI: the dynamic parsers, in the order the code tries them.
\* Keys the code emits itself (Special, the mouse keys) are in "emits".
parseModifiedCSI(seq, decodeMacOS) ==
    LET body      == From(seq, 2)
        finalByte == body[Len(body)]
        parts     == splitCSIParams(Upto(body, Len(body) - 1))
        sgr       == parseMouseSGR(seq)
        x10       == parseMouseX10(seq)
    IN  IF /\ Len(seq) = 4 /\ seq[1] = ESC /\ seq[2] = ESC /\ seq[3] = Ord("[")
           /\ seq[4] \in DOMAIN optionArrowKeys
        THEN [ok |-> TRUE, key |-> optionArrowKeys[seq[4]],
              emits |-> <<B("Special")>>]
        ELSE IF Len(seq) < 3 \/ seq[1] # ESC \/ seq[2] # Ord("[") THEN NoMatch
        ELSE IF /\ Len(body) >= 4 /\ body[1] = Ord("<")
                /\ finalByte \in {Ord("M"), Ord("m")}
                /\ sgr.ok
        THEN MouseEmits(sgr)
        ELSE IF Len(body) = 4 /\ body[1] = Ord("M") /\ x10.ok THEN MouseEmits(x10)
        ELSE IF body = B("Z") THEN Match(B("S-Tab"))
        ELSE IF ~IsFinalByte(finalByte) THEN NoMatch
        ELSE IF finalByte \in {Ord("A"), Ord("B"), Ord("C"), Ord("D")}
        THEN parseModifiedCursorKey(finalByte, parts)
        ELSE IF finalByte \in {Ord("H"), Ord("F")}
        THEN parseModifiedHomeEnd(finalByte, parts)
        ELSE IF finalByte \in {Ord("P"), Ord("Q"), Ord("R"), Ord("S")}
        THEN parseModifiedF1toF4(finalByte, parts)
        ELSE IF finalByte = Ord("~") THEN parseModifiedTildeKey(parts)
        ELSE IF finalByte = Ord("u") THEN parseKittyProtocol(parts, decodeMacOS)
        ELSE NoMatch

\* ------------------------------------------------------------------------
\* The handler's state and its operations on it
\* ------------------------------------------------------------------------

\* Capacity of the Keys channel (Options.KeyBufferSize).
KeyBufferSize == 3

\* Capacity of the Lines channel (Options.LineBufferSize).
LineBufferSize == 2

\* pasteEndBufferSize: the bytes kept back while a paste is flushed in chunks.
pasteEndBufferSize == 7

VARIABLES
    inEscape,          \* h.inEscape
    escBuffer,         \* h.escBuffer
    utf8Buffer,        \* h.utf8Buffer
    utf8Remaining,     \* h.utf8Remaining
    inPaste,           \* h.inPaste
    pasteBuffer,       \* h.pasteBuffer
    fullPasteContent,  \* h.fullPasteContent
    timerArmed,        \* escTimeout is running (Reset and not yet fired or stopped)
    timerC,            \* the number of expiries waiting in escTimeout.C (0 or 1)
    asyncTimerChan,    \* the build's timer channel keeps an expiry across Stop/Reset
    inLineReadMode,    \* h.inLineReadMode
    currentLine,       \* h.currentLine
    charByteLengths,   \* h.charByteLengths
    Keys,              \* the contents of the h.Keys channel, oldest first
    Lines,             \* the contents of the h.Lines channel, oldest first
    decodeMacOSOption, \* h.decodeMacOSOption
    pasteChunkSize,    \* h.pasteChunkSize
    onPasteChunkSet,   \* h.OnPasteChunk != nil
    echoSet,           \* h.echoWriter != nil
    events,            \* what the handler has delivered so far, in order
    script,            \* the bytes the input source has still to deliver
    scenario,          \* what the input source was set up to deliver
    consumed,          \* the bytes the worker has passed to processByte, in order
    nchunks,           \* the number of raw chunks the worker has taken
    timeoutsAt,        \* for each timer expiry the worker has handled, the
                       \* number of bytes it had consumed by then
    pushes,            \* the sends on h.Keys and h.Lines that went through, in
                       \* order, each with the number of deliveries before it
    emitPc,            \* where the worker is inside emitKey's send on h.Keys
    emitPending,       \* the key that send is about
    mu,                \* the goroutine that holds h.mu: "none", "worker" or
                       \* "caller"
    running,           \* h.running
    stopClosed,        \* h.stopChan is closed
    readers,           \* the readLoop goroutines started so far
    workers,           \* the processLoop goroutines started so far, each with
                       \* its own escTimeout
    rawBytes,          \* the contents of the h.rawBytes channel, oldest first
    calls              \* the Start and Stop calls made so far, with their results

vars ==
    <<inEscape, escBuffer, utf8Buffer, utf8Remaining, inPaste, pasteBuffer,
      fullPasteContent, timerArmed, timerC, asyncTimerChan, inLineReadMode,
      currentLine, charByteLengths, Keys, Lines, decodeMacOSOption,
      pasteChunkSize, onPasteChunkSet, echoSet, events, script, scenario,
      consumed, nchunks, timeoutsAt, pushes, emitPc, emitPending, mu, running,
      stopClosed, readers, workers, rawBytes, calls>>

\* The goroutines, the channels between them and the position inside emitKey:
\* what the operations on the decoder's fields leave alone.
lifeVars ==
    <<emitPc, emitPending, mu, running, stopClosed, readers, workers, rawBytes,
      calls>>

\* The handler's fields as one record, the form the operations below work on.
Cur ==
    [inEscape |-> inEscape, escBuffer |-> escBuffer, utf8Buffer |-> utf8Buffer,
     utf8Remaining |-> utf8Remaining, inPaste |-> inPaste,
     pasteBuffer |-> pasteBuffer, fullPasteContent |-> fullPasteContent,
     timerArmed |-> timerArmed, timerC |-> timerC,
     asyncTimerChan |-> asyncTimerChan, inLineReadMode |-> inLineReadMode,
     currentLine |-> currentLine, charByteLengths |-> charByteLengths,
     Keys |-> Keys, Lines |-> Lines, decodeMacOSOption |-> decodeMacOSOption,
     pasteChunkSize |-> pasteChunkSize, onPasteChunkSet |-> onPasteChunkSet,
     echoSet |-> echoSet, events |-> events, pushes |-> pushes]

\* The next state's fields are those of record st.
Becomes(st) ==
    /\ inEscape' = st.inEscape
    /\ escBuffer' = st.escBuffer
    /\ utf8Buffer' = st.utf8Buffer
    /\ utf8Remaining' = st.utf8Remaining
    /\ inPaste' = st.inPaste
    /\ pasteBuffer' = st.pasteBuffer
    /\ fullPasteContent' = st.fullPasteContent
    /\ timerArmed' = st.timerArmed
    /\ timerC' = st.timerC
    /\ asyncTimerChan' = st.asyncTimerChan
    /\ inLineReadMode' = st.inLineReadMode
    /\ currentLine' = st.currentLine
    /\ charByteLengths' = st.charByteLengths
    /\ Keys' = st.Keys
    /\ Lines' = st.Lines
    /\ decodeMacOSOption' = st.decodeMacOSOption
    /\ pasteChunkSize' = st.pasteChunkSize
    /\ onPasteChunkSet' = st.onPasteChunkSet
    /\ echoSet' = st.echoSet
    /\ events' = st.events
    /\ pushes' = st.pushes

\* One delivery: a key (emitKey), a line (OnLine), a whole paste (OnPaste), a
\* paste chunk (OnPasteChunk) or an echo (echoWriter.Write).
Event(kind, data, final) == [kind |-> kind, data |-> data, final |-> final]

Deliver(st, kind, data, final) ==
    [st EXCEPT !.events = Append(@, Event(kind, data, final))]

\* echoLocked, and the direct writes to echoWriter: nothing without a writer.
echoLocked(st, s) == IF st.echoSet THEN Deliver(st, "echo", s, FALSE) ELSE st

\* escTimeout.Stop(): the timer no longer runs; an expiry already in the
\* channel stays there on a build with the asynchronous timer channel.
TimerStop(st) ==
    [st EXCEPT !.timerArmed = FALSE,
               !.timerC = IF st.asyncTimerChan THEN @ ELSE 0]

\* escTimeout.Reset that leaves the timer stopped.
TimerResetStopped(st) ==
    [st EXCEPT !.timerC = IF st.asyncTimerChan THEN @ ELSE 0]

\* escTimeout.Reset(50ms)
TimerReset(st) ==
    [st EXCEPT !.timerArmed = TRUE,
               !.timerC = IF st.asyncTimerChan THEN @ ELSE 0]

\* A send on h.Keys or h.Lines went through: it is noted with the number of
\* deliveries (callbacks and echo writes) made before it.
Pushed(st, queue, data) ==
    [st EXCEPT !.pushes = Append(@, [queue |-> queue, data |-> data,
                                     seen |-> Len(st.events)])]

\* A send on a full channel that first drops the oldest element.
SendDropOldest(q, cap, x) ==
    IF Len(q) < cap THEN Append(q, x) ELSE Append(Tail(q), x)

\* LastCharLen of an editor that takes every character for one byte.
LastCharLenOneByte(st) == 1

\* lastCharLen: the recorded byte length of the last character of the line.
LastCharLen(st) == st.charByteLengths[Len(st.charByteLengths)]

\* handleLineAssembly: one key in line mode.
handleLineAssembly(st, key) ==
    LET dec == DecodeRune(key)
        n   == Len(st.charByteLengths)
    IN  IF ~st.inLineReadMode THEN st
        ELSE IF key = B("Enter")
        THEN LET s1 == Pushed([st EXCEPT !.currentLine = << >>,
                                         !.charByteLengths = << >>,
                                         !.Lines = SendDropOldest(@, LineBufferSize,
                                                                  st.currentLine)],
                               "Lines", st.currentLine)
                 s2 == Deliver(s1, "line", st.currentLine, FALSE)
             IN  echoLocked(s2, <<13, 10>>)
        ELSE IF key = B("Backspace")
        THEN IF n > 0
             THEN echoLocked(
                    [st EXCEPT !.currentLine =
                                   Upto(@, Len(@) - LastCharLen(st)),
                               !.charByteLengths = Upto(@, n - 1)],
                    <<8, 32, 8>>)
             ELSE st
        ELSE IF key = B("^U")
        THEN LET s1 == IF st.echoSet
                       THEN [st EXCEPT !.events =
                                @ \o [i \in 1..n |-> Event("echo", <<8, 32, 8>>, FALSE)]]
                       ELSE st
             IN  [s1 EXCEPT !.currentLine = << >>, !.charByteLengths = << >>]
        ELSE IF key = B("^C")
        THEN LET s1 == echoLocked(st, B("^C") \o <<13, 10>>)
                 s2 == [s1 EXCEPT !.currentLine = << >>,
                                  !.charByteLengths = << >>]
                 s3 == IF Len(s2.Lines) < LineBufferSize
                       THEN Pushed([s2 EXCEPT !.Lines = Append(@, << >>)],
                                   "Lines", << >>)
                       ELSE s2
             IN  Deliver(s3, "line", << >>, FALSE)
        ELSE IF /\ Len(key) > 0
                /\ dec.r # RuneError
                /\ Len(key) = RuneLen(dec.r)
                /\ dec.r >= 32
        THEN echoLocked([st EXCEPT !.currentLine = @ \o key,
                                   !.charByteLengths = Append(@, Len(key))],
                        key)
        ELSE st

\* The key after the macOS Option decoding at the head of emitKey.
OptionDecoded(st, key) ==
    LET dec == DecodeRune(key)
    IN  IF /\ st.decodeMacOSOption
           /\ Len(key) > 0
           /\ dec.size = Len(key)
           /\ dec.r # RuneError
           /\ dec.r \in DOMAIN macOSOptionChars
        THEN macOSOptionChars[dec.r]
        ELSE key

\* emitKey: Option decoding, the OnKey callback, then line assembly in line
\* mode and otherwise the Keys channel, dropping its oldest key when full.
emitKey(st, key) ==
    LET k  == OptionDecoded(st, key)
        s1 == Deliver(st, "key", k, FALSE)
    IN  IF s1.inLineReadMode THEN handleLineAssembly(s1, k)
        ELSE Pushed([s1 EXCEPT !.Keys = SendDropOldest(@, KeyBufferSize, k)],
                    "Keys", k)

RECURSIVE emitKeys(_, _)
\* emitKey for each key of a sequence, in order.
emitKeys(st, keys) ==
    IF keys = << >> THEN st ELSE emitKeys(emitKey(st, Head(keys)), Tail(keys))

\* The name emitEscapeBuffer and processByte give a control byte: its
\* controlKeys entry (every byte below 32 and 127 has one).
ControlKeyName(b) ==
    IF b \in DOMAIN controlKeys THEN controlKeys[b]
    ELSE B("^") \o EncodeRune(ToByte(b + 64))

\* The keys emitEscapeBuffer emits for the bytes after the leading ESC.
EscapeBufferKeys(buf) ==
    [i \in 1..(Len(buf) - 1) |->
        IF buf[i + 1] < 32 \/ buf[i + 1] = 127
        THEN controlKeys[buf[i + 1]]
        ELSE EncodeRune(buf[i + 1])]

\* emitEscapeBuffer without its last statement, h.inEscape = false.
emitEscapeBufferStaysInEscape(st) ==
    LET s1 == emitKeys(st, <<B("Escape")>> \o EscapeBufferKeys(st.escBuffer))
    IN  [s1 EXCEPT !.escBuffer = << >>]

\* emitEscapeBuffer: Escape, then each remaining byte as a key of its own.
emitEscapeBuffer(st) ==
    LET s1 == emitKeys(st, <<B("Escape")>> \o EscapeBufferKeys(st.escBuffer))
    IN  [s1 EXCEPT !.escBuffer = << >>, !.inEscape = FALSE]

RECURSIVE handlePasteLineAssembly(_, _)
\* handlePasteLineAssembly: pasted content spliced into the line buffer, up
\* to the first CR or LF, which submits the line and drops the rest.
handlePasteLineAssembly(st, content) ==
    LET dec == DecodeRune(content)
    IN  IF ~st.inLineReadMode \/ content = << >> THEN st
        ELSE IF dec.r = RuneError /\ dec.size = 1
        THEN handlePasteLineAssembly(st, Tail(content))
        ELSE IF dec.r = 13 \/ dec.r = 10
        THEN LET s1 == Pushed([st EXCEPT !.currentLine = << >>,
                                         !.charByteLengths = << >>,
                                         !.Lines = SendDropOldest(@, LineBufferSize,
                                                                  st.currentLine)],
                               "Lines", st.currentLine)
                 s2 == Deliver(s1, "line", st.currentLine, FALSE)
             IN  echoLocked(s2, <<13, 10>>)
        ELSE IF dec.r >= 32 \/ dec.r = 9
        THEN handlePasteLineAssembly(
                 echoLocked([st EXCEPT !.currentLine = @ \o Upto(content, dec.size),
                                       !.charByteLengths = Append(@, dec.size)],
                            EncodeRune(dec.r)),
                 From(content, dec.size))
        ELSE handlePasteLineAssembly(st, From(content, dec.size))

\* The keys of pasted content when it is looked up as an escape sequence.
PasteKeysParsed(content) ==
    IF content \in DOMAIN escBindings THEN <<escBindings[content]>>
    ELSE [i \in 1..Len(content) |-> <<content[i]>>]

RECURSIVE PasteKeys(_)
\* The keys emitPaste emits for pasted content outside line mode.
PasteKeys(content) ==
    LET dec  == DecodeRune(content)
        rest == PasteKeys(From(content, dec.size))
    IN  IF content = << >> THEN << >>
        ELSE IF dec.r = RuneError /\ dec.size = 1 THEN PasteKeys(Tail(content))
        ELSE IF dec.r = 13 THEN <<B("Enter")>> \o rest
        ELSE IF dec.r = 10 THEN <<B("^J")>> \o rest
        ELSE IF dec.r = 9 THEN <<B("Tab")>> \o rest
        ELSE IF dec.r = 127 THEN <<B("Backspace")>> \o rest
        ELSE IF dec.r < 32
        THEN (IF dec.r \in DOMAIN controlKeys THEN <<controlKeys[dec.r]>> ELSE << >>)
             \o rest
        ELSE <<EncodeRune(dec.r)>> \o rest

\* emitPaste: the OnPaste callback, then the content into the line buffer in
\* line mode and otherwise re-emitted key by key.
emitPaste(st, content) ==
    LET s1 == Deliver(st, "paste", content, FALSE)
    IN  IF s1.inLineReadMode THEN handlePasteLineAssembly(s1, content)
        ELSE emitKeys(s1, PasteKeys(content))

\* Utf8Expected with the 4-byte form taken for a 3-byte one.
Utf8ExpectedShortFour(b) ==
    IF b >= 192 /\ b <= 223 THEN 1
    ELSE IF b >= 224 /\ b <= 247 THEN 2
    ELSE 0

\* The number of continuation bytes a UTF-8 lead byte announces; 0 for a byte
\* that is no lead byte.
Utf8Expected(b) ==
    IF b >= 192 /\ b <= 223 THEN 1
    ELSE IF b >= 224 /\ b <= 239 THEN 2
    ELSE IF b >= 240 /\ b <= 247 THEN 3
    ELSE 0

\* ChunkDue with nothing kept back for the end marker.
ChunkDueNoWindow(st, pb) ==
    st.onPasteChunkSet /\ Len(pb) >= st.pasteChunkSize

\* ChunkDue with fewer bytes kept back than the end marker needs.
ChunkDueShortTail(st, pb) ==
    st.onPasteChunkSet /\ Len(pb) >= st.pasteChunkSize + Len(bracketedPasteEnd) - 2

\* Whether the paste buffer pb is flushed: OnPasteChunk is set and pb holds a
\* chunk and the 7 bytes kept back for the end marker.
ChunkDue(st, pb) ==
    st.onPasteChunkSet /\ Len(pb) >= st.pasteChunkSize + pasteEndBufferSize

\* processByte while h.inPaste with the final chunk delivered after emitPaste.
ProcessPasteByteChunkLast(st, b) ==
    LET pb   == Append(st.pasteBuffer, b)
        full == Append(st.fullPasteContent, b)
        endn == Len(bracketedPasteEnd)
        s0   == [st EXCEPT !.pasteBuffer = pb, !.fullPasteContent = full]
    IN  IF Len(pb) >= endn /\ From(pb, Len(pb) - endn) = bracketedPasteEnd
        THEN LET s1 == [s0 EXCEPT !.inPaste = FALSE, !.pasteBuffer = << >>,
                                  !.fullPasteContent = << >>]
                 s2 == emitPaste(s1, Upto(full, Len(full) - endn))
             IN  IF st.onPasteChunkSet
                 THEN Deliver(s2, "chunk", Upto(pb, Len(pb) - endn), TRUE)
                 ELSE s2
        ELSE IF ChunkDue(st, pb)
        THEN Deliver([s0 EXCEPT !.pasteBuffer = From(pb, st.pasteChunkSize)],
                     "chunk", Upto(pb, st.pasteChunkSize), FALSE)
        ELSE s0

\* processByte while h.inPaste: buffer the byte, end the paste on the end
\* marker, flush a chunk when the buffer holds chunk size + 7 bytes.
ProcessPasteByte(st, b) ==
    LET pb   == Append(st.pasteBuffer, b)
        full == Append(st.fullPasteContent, b)
        endn == Len(bracketedPasteEnd)
        s0   == [st EXCEPT !.pasteBuffer = pb, !.fullPasteContent = full]
    IN  IF Len(pb) >= endn /\ From(pb, Len(pb) - endn) = bracketedPasteEnd
        THEN LET s1 == [s0 EXCEPT !.inPaste = FALSE, !.pasteBuffer = << >>,
                                  !.fullPasteContent = << >>]
                 s2 == IF st.onPasteChunkSet
                       THEN Deliver(s1, "chunk", Upto(pb, Len(pb) - endn), TRUE)
                       ELSE s1
             IN  emitPaste(s2, Upto(full, Len(full) - endn))
        ELSE IF ChunkDue(st, pb)
        THEN Deliver([s0 EXCEPT !.pasteBuffer = From(pb, st.pasteChunkSize)],
                     "chunk", Upto(pb, st.pasteChunkSize), FALSE)
        ELSE s0

\* processByte while h.inEscape: append the byte and resolve the buffer.
ProcessEscapeByte(st, b) ==
    LET seq == Append(st.escBuffer, b)
        s0  == [st EXCEPT !.escBuffer = seq]
        csi == parseModifiedCSI(seq, st.decodeMacOSOption)
        alt == parseAltSequence(seq)
        leave(s) == TimerStop([s EXCEPT !.escBuffer = << >>, !.inEscape = FALSE])
    IN  IF seq = bracketedPasteStart
        THEN TimerStop([s0 EXCEPT !.inEscape = FALSE, !.escBuffer = << >>,
                                  !.inPaste = TRUE, !.pasteBuffer = << >>,
                                  !.fullPasteContent = << >>])
        ELSE IF seq \in DOMAIN escBindings
        THEN leave(emitKey(s0, escBindings[seq]))
        ELSE IF couldBeEscapePrefix(seq) THEN TimerReset(s0)
        ELSE IF csi.ok
        THEN leave(emitKeys(s0, csi.emits
                                \o (IF csi.key # << >> THEN <<csi.key>> ELSE << >>)))
        ELSE IF alt.ok THEN leave(emitKey(s0, alt.key))
        ELSE emitEscapeBuffer(s0)

RECURSIVE processByte(_, _)
\* processByte: one byte of input.
processByte(st, b) ==
    IF st.inPaste THEN ProcessPasteByte(st, b)
    ELSE IF st.inEscape THEN ProcessEscapeByte(st, b)
    ELSE IF b = ESC
    THEN TimerReset([st EXCEPT !.inEscape = TRUE, !.escBuffer = <<b>>])
    ELSE IF b < 32 \/ b = 127 THEN emitKey(st, ControlKeyName(b))
    ELSE IF b < 128 THEN emitKey(st, EncodeRune(b))
    ELSE IF st.utf8Remaining > 0
    THEN IF IsCont(b)
         THEN IF st.utf8Remaining = 1
              THEN [emitKey([st EXCEPT !.utf8Buffer = Append(@, b),
                                       !.utf8Remaining = 0],
                            Append(st.utf8Buffer, b))
                      EXCEPT !.utf8Buffer = << >>]
              ELSE [st EXCEPT !.utf8Buffer = Append(@, b),
                              !.utf8Remaining = @ - 1]
         ELSE processByte(
                  [emitKeys(st, [i \in 1..Len(st.utf8Buffer) |->
                                    EncodeRune(st.utf8Buffer[i])])
                      EXCEPT !.utf8Buffer = << >>, !.utf8Remaining = 0],
                  b)
    ELSE IF Utf8Expected(b) > 0
    THEN [st EXCEPT !.utf8Buffer = <<b>>, !.utf8Remaining = Utf8Expected(b)]
    ELSE emitKey(st, EncodeRune(b))

RECURSIVE processBytes(_, _)
\* The loop of processLoop over one raw chunk: processByte for each byte.
processBytes(st, data) ==
    IF data = << >> THEN st
    ELSE processBytes(processByte(st, Head(data)), Tail(data))

\* The escTimeout.C case that gives the pending bytes up without a key.
HandleTimeoutDropsBuffer(st) ==
    IF st.inEscape /\ Len(st.escBuffer) > 0
    THEN [st EXCEPT !.escBuffer = << >>, !.inEscape = FALSE]
    ELSE st

\* The escTimeout.C case of processLoop: try the Alt parse, else emit the
\* buffer byte by byte; nothing when no escape sequence is pending.
HandleTimeout(st) ==
    LET alt == parseAltSequence(st.escBuffer)
    IN  IF st.inEscape /\ Len(st.escBuffer) > 0
        THEN IF alt.ok
             THEN [emitKey(st, alt.key) EXCEPT !.escBuffer = << >>,
                                               !.inEscape = FALSE]
             ELSE emitEscapeBuffer(st)
        ELSE st

\* ------------------------------------------------------------------------
\* Actions
\* ------------------------------------------------------------------------

\* The most raw chunks the input source delivers when it may deliver anything;
\* chunks are counted up to this number.
MaxChunks == 4

\* The most timer expiries the worker handles in one run.
MaxTimeouts == 1

\* The fields after New(opts): nothing buffered, no timer running, line mode
\* off, nothing delivered or sent.
NewFields(async, decode, chunkSize, onChunk, echo) ==
    /\ inEscape = FALSE
    /\ escBuffer = << >>
    /\ utf8Buffer = << >>
    /\ utf8Remaining = 0
    /\ inPaste = FALSE
    /\ pasteBuffer = << >>
    /\ fullPasteContent = << >>
    /\ timerArmed = FALSE
    /\ timerC = 0
    /\ asyncTimerChan = async
    /\ inLineReadMode = FALSE
    /\ currentLine = << >>
    /\ charByteLengths = << >>
    /\ Keys = << >>
    /\ Lines = << >>
    /\ decodeMacOSOption = decode
    /\ pasteChunkSize = chunkSize
    /\ onPasteChunkSet = onChunk
    /\ echoSet = echo
    /\ events = << >>
    /\ consumed = << >>
    /\ nchunks = 0
    /\ timeoutsAt = << >>
    /\ pushes = << >>
    /\ emitPc = "idle"
    /\ emitPending = << >>
    /\ mu = "none"

\* A readLoop goroutine: at the top of its loop ("select"), inside
\* inputReader.Read ("read"), at its send of data on h.rawBytes ("send"),
\* returned after the stop signal ("done") or after a read error ("failed").
Reader(pc, data) == [pc |-> pc, data |-> data]

\* A processLoop goroutine: at its select ("select"), inside the loop over
\* the bytes of a chunk with data still to process ("busy"), at the last
\* send of a completed line on h.Lines ("sendLine", line is what it sends)
\* or returned ("done"); armed and c are its escTimeout, running and expired.
Worker(pc, data, armed, c) ==
    [pc |-> pc, data |-> data, armed |-> armed, c |-> c, line |-> << >>]

\* After New(opts): not running, stopChan open, no goroutines.
NotStarted ==
    /\ running = FALSE
    /\ stopClosed = FALSE
    /\ readers = << >>
    /\ workers = << >>
    /\ rawBytes = << >>
    /\ calls = << >>

\* After New(opts) and Start(): the reader is in Read and the worker at its
\* select (processLoop stops and drains its timer before its first select).
Started ==
    /\ running = TRUE
    /\ stopClosed = FALSE
    /\ readers = <<Reader("read", << >>)>>
    /\ workers = <<Worker("select", << >>, FALSE, 0)>>
    /\ rawBytes = << >>
    /\ calls = <<[op |-> "Start", result |-> "ok"]>>

\* The state the decoder is followed from: a handler made by New(opts) and
\* started.
InitHandler(async, decode, chunkSize, onChunk, echo) ==
    /\ NewFields(async, decode, chunkSize, onChunk, echo)
    /\ Started

\* The data case of processLoop: the worker takes raw chunk data and runs
\* processByte on each of its bytes.
Process(data) ==
    /\ Becomes(processBytes(Cur, data))
    /\ consumed' = consumed \o data
    /\ nchunks' = IF nchunks < MaxChunks THEN nchunks + 1 ELSE nchunks
    /\ UNCHANGED lifeVars

\* The input source delivers any chunk of AnyChunks.
RecvChunk(data) ==
    /\ nchunks < MaxChunks
    /\ Process(data)
    /\ UNCHANGED <<script, scenario, timeoutsAt>>

\* The input source delivers the next k bytes of its script as one chunk.
RecvNext(k) ==
    /\ k \in 1..Len(script)
    /\ Process(Upto(script, k))
    /\ script' = From(script, k)
    /\ UNCHANGED <<scenario, timeoutsAt>>

\* The runtime fires escTimeout: the expiry is put in the timer's channel.
TimerExpire ==
    /\ timerArmed
    /\ timerArmed' = FALSE
    /\ timerC' = 1
    /\ UNCHANGED <<inEscape, escBuffer, utf8Buffer, utf8Remaining, inPaste,
                   pasteBuffer, fullPasteContent, asyncTimerChan, inLineReadMode,
                   currentLine, charByteLengths, Keys, Lines, decodeMacOSOption,
                   pasteChunkSize, onPasteChunkSet, echoSet, events, script,
                   scenario, consumed, nchunks, timeoutsAt, pushes>>
    /\ UNCHANGED lifeVars

\* The escTimeout.C case of processLoop: the worker takes the expiry.
Timeout ==
    /\ timerC = 1
    /\ Len(timeoutsAt) < MaxTimeouts
    /\ Becomes([HandleTimeout(Cur) EXCEPT !.timerC = 0])
    /\ timeoutsAt' = Append(timeoutsAt, Len(consumed))
    /\ UNCHANGED <<script, scenario, consumed, nchunks>>
    /\ UNCHANGED lifeVars

\* SetLineMode that empties the line and keeps the byte lengths.
SetLineModeKeepsLengths(enabled) ==
    /\ inLineReadMode' = enabled
    /\ currentLine' = IF enabled THEN << >> ELSE currentLine
    /\ UNCHANGED <<inEscape, escBuffer, utf8Buffer, utf8Remaining, inPaste,
                   pasteBuffer, fullPasteContent, timerArmed, timerC,
                   asyncTimerChan, Keys, Lines, decodeMacOSOption, pasteChunkSize,
                   onPasteChunkSet, echoSet, events, script, scenario,
                   consumed, nchunks, timeoutsAt, pushes, charByteLengths>>
    /\ UNCHANGED lifeVars

\* SetLineMode(enabled)
SetLineMode(enabled) ==
    /\ inLineReadMode' = enabled
    /\ currentLine' = IF enabled THEN << >> ELSE currentLine
    /\ charByteLengths' = IF enabled THEN << >> ELSE charByteLengths
    /\ UNCHANGED <<inEscape, escBuffer, utf8Buffer, utf8Remaining, inPaste,
                   pasteBuffer, fullPasteContent, timerArmed, timerC,
                   asyncTimerChan, Keys, Lines, decodeMacOSOption, pasteChunkSize,
                   onPasteChunkSet, echoSet, events, script, scenario,
                   consumed, nchunks, timeoutsAt, pushes>>
    /\ UNCHANGED lifeVars

\* ------------------------------------------------------------------------
\* Spec: the decoder fed any chunks, with the timer
\* ------------------------------------------------------------------------

\* The raw chunks the input source may deliver in Spec: single bytes (ESC,
\* "[", "A", a 3-byte and a 2-byte UTF-8 lead byte, a continuation byte)
\* and the two paste markers.
AnyChunks ==
    {<<ESC>>, B("["), B("A"), <<224>>, <<195>>, <<128>>,
     bracketedPasteStart, bracketedPasteEnd}

Init ==
    /\ \E async \in BOOLEAN : InitHandler(async, FALSE, 1, TRUE, FALSE)
    /\ script = << >>
    /\ scenario = [kind |-> "any"]

Next ==
    \/ \E data \in AnyChunks : RecvChunk(data)
    \/ TimerExpire
    \/ Timeout

Spec == Init /\ [][Next]_vars

\* ------------------------------------------------------------------------
\* What was delivered
\* ------------------------------------------------------------------------

RECURSIVE DataOf(_, _)
\* The data of the events of one kind, in order.
DataOf(evs, kind) ==
    IF evs = << >> THEN << >>
    ELSE (IF Head(evs).kind = kind THEN <<Head(evs).data>> ELSE << >>)
         \o DataOf(Tail(evs), kind)

\* The keys emitted so far (the arguments OnKey has seen), in order.
KeyLog == DataOf(events, "key")

\* Normal mode: no escape sequence, paste or UTF-8 character is pending.
Normal == ~inEscape /\ ~inPaste /\ utf8Remaining = 0

\* The number of sub-modes that are active.
ActiveSubModes ==
    (IF inEscape THEN 1 ELSE 0) + (IF inPaste THEN 1 ELSE 0)
    + (IF utf8Remaining > 0 THEN 1 ELSE 0)

\* C1: in every reachable state at most one of InEscape, InPaste and
\* InUTF8Continuation is active.
C1_AtMostOneSubMode == ActiveSubModes <= 1

\* The UTF-8 lead bytes and the bytes that are no continuation byte.
LeadBytes == {b \in 0..255 : Utf8Expected(b) > 0}

\* C2: after a UTF-8 lead byte and then a byte that is no continuation byte,
\* fed from Normal with no timer expiry, the lead byte has been emitted as a
\* key of its own (the raw byte, or the code point of that value) before
\* anything else; when the second byte is printable ASCII exactly two keys
\* were emitted, the second being that byte, and no UTF-8 state is left; when
\* it is a lead byte it starts the next character.
C2_InvalidContinuationFlushes ==
    \A l \in LeadBytes, x \in 0..255 :
        (consumed = <<l, x>> /\ timeoutsAt = << >> /\ ~IsCont(x)) =>
            /\ Len(KeyLog) >= 1
            /\ KeyLog[1] \in {<<l>>, EncodeRune(l)}
            /\ (x >= 32 /\ x < 127) =>
                   /\ KeyLog = <<KeyLog[1], <<x>> >>
                   /\ utf8Remaining = 0
                   /\ utf8Buffer = << >>
            /\ x \in LeadBytes => utf8Buffer = <<x>>

\* The worker handles a timer expiry in this step.
TimeoutStep == Len(timeoutsAt') = Len(timeoutsAt) + 1

\* C5: when only a lone ESC, taken in Normal, is pending and the worker
\* handles a timer expiry, that step emits exactly the key Escape and nothing
\* else, and leaves the decoder in Normal with an empty escape buffer; an
\* expiry handled when no escape sequence is pending emits nothing.
C5_LoneEscapeTimesOut ==
    [][TimeoutStep =>
          /\ (inEscape /\ escBuffer = <<ESC>> /\ utf8Remaining = 0) =>
                 /\ events' = Append(events, Event("key", B("Escape"), FALSE))
                 /\ Normal'
                 /\ escBuffer' = << >>
          /\ ~inEscape => events' = events]_vars

\* C5 witness: a lone ESC was fed, the timer expired, and Escape is the one
\* key emitted.
C5_Witness ==
    /\ consumed = <<ESC>>
    /\ timeoutsAt = <<1>>
    /\ KeyLog = <<B("Escape")>>
    /\ Normal

\* ------------------------------------------------------------------------
\* SpecUTF8: one encoded character, split into raw chunks in every way
\* ------------------------------------------------------------------------

\* Unicode scalar values at the edges of the 2-, 3- and 4-byte forms, some in
\* between, and some the macOS Option table maps.
Scalars ==
    {128, 229, 233, 255, 960, 2047, 2048, 8364, 8706, 55295, 57344, 63743,
     65533, 65535, 65536, 128512, 1114111}

InitUTF8 ==
    /\ \E async \in BOOLEAN, decode \in BOOLEAN :
           InitHandler(async, decode, 1, FALSE, FALSE)
    /\ \E r \in Scalars :
           /\ scenario = [kind |-> "utf8", r |-> r]
           /\ script = EncodeRune(r)

NextUTF8 == \E k \in 1..4 : RecvNext(k)

SpecUTF8 == InitUTF8 /\ [][NextUTF8]_vars

\* C3: with Option decoding off, the UTF-8 bytes of a scalar value of 2, 3 or
\* 4 bytes, fed from Normal in one chunk or split at any byte boundary, emit
\* nothing before the last byte and then exactly one key, the character
\* itself, leaving utf8Remaining = 0 and the UTF-8 buffer empty.
C3_Utf8RoundTrip ==
    (scenario.kind = "utf8" /\ ~decodeMacOSOption) =>
        /\ script # << >> => KeyLog = << >>
        /\ (script # << >> /\ consumed # << >>) =>
               utf8Remaining = Len(script) /\ utf8Buffer = consumed
        /\ script = << >> =>
               /\ KeyLog = <<EncodeRune(scenario.r)>>
               /\ utf8Remaining = 0
               /\ utf8Buffer = << >>

\* C3 witness: a 4-byte character was fed in two chunks and came out as one key.
C3_Witness ==
    /\ scenario.kind = "utf8"
    /\ scenario.r = 128512
    /\ ~decodeMacOSOption
    /\ script = << >>
    /\ nchunks = 2
    /\ KeyLog = <<<<240, 159, 152, 128>>>>

\* ------------------------------------------------------------------------
\* SpecPaste: one bracketed paste, split into raw chunks in every way
\* ------------------------------------------------------------------------

\* The largest paste chunk size (Options.PasteChunkSize) tried.
MaxPasteChunk == 2

\* The first k bytes of the end marker.
EndPrefix(k) == Upto(bracketedPasteEnd, k)

\* Paste contents: empty, and proper prefixes of the end marker with bytes
\* that do not continue it after them (one of them directly before the true
\* end marker).
PasteContents ==
    {<< >>,
     EndPrefix(5) \o B("x"),
     EndPrefix(1) \o EndPrefix(2) \o B("y"),
     B("z") \o EndPrefix(5)}

InitPaste ==
    /\ \E size \in {1, MaxPasteChunk}, onChunk \in BOOLEAN :
           InitHandler(FALSE, FALSE, size, onChunk, FALSE)
    /\ \E content \in PasteContents :
           /\ scenario = [kind |-> "paste", content |-> content]
           /\ script = bracketedPasteStart \o content \o bracketedPasteEnd

NextPaste ==
    \/ \E k \in 1..Len(script) : RecvNext(k)
    \/ TimerExpire
    \/ Timeout

SpecPaste == InitPaste /\ [][NextPaste]_vars

\* The events of one kind, in order.
EventsOf(evs, kind) == SelectSeq(evs, LAMBDA e : e.kind = kind)

\* The start marker was taken as one escape sequence: no timer expiry was
\* handled between its bytes.
PasteStarted ==
    \A i \in 1..Len(timeoutsAt) : timeoutsAt[i] >= Len(bracketedPasteStart)

\* C4: for a bracketed paste whose content holds proper prefixes of the end
\* marker followed by other bytes, for every chunk size and every split of
\* the input: until the last byte of the true end marker the decoder stays
\* in paste mode, OnPaste has not been called, no chunk is final and the
\* chunks so far are a prefix of the content; after it, paste mode has ended,
\* OnPaste got exactly the content once, and the OnPasteChunk contents in
\* order (full-size non-final chunks, then one final chunk) concatenate to
\* exactly the content.
C4_PasteContentExact ==
    (scenario.kind = "paste" /\ PasteStarted) =>
        LET content == scenario.content
            chunks  == EventsOf(events, "chunk")
            sofar   == Concat(DataOf(events, "chunk"))
        IN  /\ ~onPasteChunkSet => chunks = << >>
            /\ (Len(consumed) >= Len(bracketedPasteStart) /\ script # << >>) =>
                   /\ inPaste
                   /\ DataOf(events, "paste") = << >>
                   /\ \A i \in 1..Len(chunks) :
                          ~chunks[i].final /\ Len(chunks[i].data) = pasteChunkSize
                   /\ Len(sofar) <= Len(content)
                   /\ sofar = Upto(content, Len(sofar))
            /\ script = << >> =>
                   /\ ~inPaste
                   /\ DataOf(events, "paste") = <<content>>
                   /\ onPasteChunkSet =>
                          /\ sofar = content
                          /\ Len(chunks) >= 1
                          /\ \A i \in 1..Len(chunks) :
                                 chunks[i].final <=> (i = Len(chunks))
                          /\ \A i \in 1..(Len(chunks) - 1) :
                                 Len(chunks[i].data) = pasteChunkSize

\* C4 witness: a paste of ESC[201x, fed in three or more raw chunks with
\* chunk size 1, was flushed in non-final chunks and a final one and ended at
\* the true end marker.
C4_Witness ==
    /\ scenario.kind = "paste"
    /\ scenario.content = EndPrefix(5) \o B("x")
    /\ PasteStarted
    /\ onPasteChunkSet
    /\ pasteChunkSize = 1
    /\ script = << >>
    /\ nchunks >= 3
    /\ ~inPaste
    /\ Len(EventsOf(events, "chunk")) >= 2
    /\ DataOf(events, "paste") = <<EndPrefix(5) \o B("x")>>

\* ------------------------------------------------------------------------
\* SpecBindings: one static binding, split into raw chunks in every way
\* ------------------------------------------------------------------------

InitBindings ==
    /\ \E async \in BOOLEAN : InitHandler(async, FALSE, 1, FALSE, FALSE)
    /\ \E seq \in DOMAIN escBindings :
           /\ scenario = [kind |-> "binding", seq |-> seq]
           /\ script = seq

NextBindings ==
    \/ \E k \in 1..Len(script) : RecvNext(k)
    \/ TimerExpire
    \/ Timeout

SpecBindings == InitBindings /\ [][NextBindings]_vars

\* C6: the bytes of an entry of the static binding table, fed from Normal in
\* any split with no timer expiry handled in between, emit no key before the
\* last byte and then exactly one key, the bound name, leaving the decoder in
\* Normal with an empty escape buffer and the timer not running.
C6_StaticBindingEmitsBoundName ==
    (scenario.kind = "binding" /\ timeoutsAt = << >>) =>
        /\ script # << >> =>
               /\ KeyLog = << >>
               /\ consumed # << >> => inEscape /\ escBuffer = consumed
        /\ script = << >> =>
               /\ KeyLog = <<escBindings[scenario.seq]>>
               /\ Normal
               /\ escBuffer = << >>
               /\ ~timerArmed

\* C6 witness: ESC O P was fed one byte per chunk and came out as F1.
C6_Witness ==
    /\ scenario.kind = "binding"
    /\ scenario.seq = E("OP")
    /\ timeoutsAt = << >>
    /\ script = << >>
    /\ nchunks = 3
    /\ KeyLog = <<B("F1")>>
    /\ Normal
    /\ ~timerArmed

\* ------------------------------------------------------------------------
\* SpecAlt: ESC and one more byte
\* ------------------------------------------------------------------------

LowerLetters == {c \in 0..255 : c >= Ord("a") /\ c <= Ord("z")}

UpperLetters == {c \in 0..255 : c >= Ord("A") /\ c <= Ord("Z")}

InitAlt ==
    /\ \E async \in BOOLEAN, decode \in BOOLEAN :
           InitHandler(async, decode, 1, FALSE, FALSE)
    /\ \E c \in LowerLetters \cup UpperLetters \cup {Ord("[")} :
           /\ scenario = [kind |-> "alt", c |-> c]
           /\ script = <<ESC, c>>

NextAlt ==
    \/ \E k \in 1..Len(script) : RecvNext(k)
    \/ TimerExpire
    \/ Timeout

SpecAlt == InitAlt /\ [][NextAlt]_vars

\* The Alt key the two bytes ESC c stand for: M-c for a lowercase letter (and
\* for "["), M-S- and the lowercased letter for an uppercase one.
AltKeyName(c) ==
    IF c \in UpperLetters THEN B("M-S-") \o <<c + 32>> ELSE B("M-") \o <<c>>

CursorKeys ==
    (Ord("A") :> B("Up")) @@ (Ord("B") :> B("Down")) @@
    (Ord("C") :> B("Right")) @@ (Ord("D") :> B("Left"))

InitCSI ==
    /\ \E async \in BOOLEAN : InitHandler(async, FALSE, 1, FALSE, FALSE)
    /\ \E mparam \in 1..16, letter \in DOMAIN CursorKeys :
           /\ scenario = [kind |-> "csi", m |-> mparam, letter |-> letter]
           /\ script = E("[1;") \o Itoa(mparam) \o <<letter>>

NextCSI ==
    \/ \E k \in 1..Len(script) : RecvNext(k)
    \/ TimerExpire
    \/ Timeout

SpecCSI == InitCSI /\ [][NextCSI]_vars

\* The modifier tokens a bitmask stands for: bit 0 Shift, bit 1 Alt, bit 2
\* Control, bit 3 Super.
ModifierTokens(mask) ==
    (IF Bit(mask, 0) THEN {B("S-")} ELSE {})
    \cup (IF Bit(mask, 1) THEN {B("M-")} ELSE {})
    \cup (IF Bit(mask, 2) THEN {B("C-")} ELSE {})
    \cup (IF Bit(mask, 3) THEN {B("s-")} ELSE {})

\* The key names made of each token of toks once, in any order, and then name.
ModifiedNames(toks, name) ==
    {Concat(f) \o name :
        f \in {g \in [1..Cardinality(toks) -> toks] :
                  \A i, j \in 1..Cardinality(toks) : g[i] = g[j] => i = j}}

ButtonCodes == {0, 1, 2, 4, 16, 32, 64}

InitMouse ==
    /\ \E async \in BOOLEAN : InitHandler(async, FALSE, 1, FALSE, FALSE)
    /\ \E cb \in ButtonCodes, pos \in {<<5, 10>>, <<1, 1>>},
          fin \in {Ord("M"), Ord("m")} :
           /\ scenario = [kind |-> "mouse", cb |-> cb, cx |-> pos[1],
                          cy |-> pos[2], fin |-> fin]
           /\ script = E("[<") \o Itoa(cb) \o B(";") \o Itoa(pos[1]) \o B(";")
                       \o Itoa(pos[2]) \o <<fin>>

NextMouse ==
    \/ \E k \in 1..Len(script) : RecvNext(k)
    \/ TimerExpire
    \/ Timeout

SpecMouse == InitMouse /\ [][NextMouse]_vars

\* s ends with suffix.
HasSuffix(s, suffix) ==
    Len(s) >= Len(suffix) /\ From(s, Len(s) - Len(suffix)) = suffix

TypedChunks == {B("a"), <<195, 169>>, <<127>>, <<13>>, <<9>>}

\* The caller turns line mode on before anything is typed.
EnterLineMode ==
    /\ ~inLineReadMode
    /\ nchunks = 0
    /\ SetLineMode(TRUE)

\* The user types one more character once the script is through.
TypeChar(data) ==
    /\ script = << >>
    /\ RecvChunk(data)

\* The script is h, e, y, Backspace, y, Enter, or nothing.
InitLine ==
    /\ \E echo \in BOOLEAN : InitHandler(FALSE, FALSE, 1, FALSE, echo)
    /\ scenario = [kind |-> "line"]
    /\ script \in {B("hey") \o <<127>> \o B("y") \o <<13>>, << >>}

NextLine ==
    \/ EnterLineMode
    \/ \E k \in 1..Len(script) : RecvNext(k)
    \/ \E data \in TypedChunks : TypeChar(data)

SpecLine == InitLine /\ [][NextLine]_vars

\* A key that is one printable character.
IsPrintableKey(key) ==
    /\ key # << >>
    /\ LET r == DecodeRune(key).r
       IN  r >= 32 /\ r # RuneError /\ key = EncodeRune(r)

RECURSIVE TypedFold(_, _)
\* What typing the keys, in order, makes of the line editor acc: cur is the
\* characters of the line being typed, lines the completed lines, echo what
\* was echoed. A printable character is added and echoed, Backspace takes
\* the last character away (nothing on an empty line), Enter completes the
\* line; any other key does nothing.
TypedFold(keys, acc) ==
    IF keys = << >> THEN acc
    ELSE LET key == Head(keys)
             nxt == IF key = B("Enter")
                    THEN [cur |-> << >>,
                          lines |-> Append(acc.lines, Concat(acc.cur)),
                          echo |-> Append(acc.echo, <<13, 10>>)]
                    ELSE IF key = B("Backspace")
                    THEN IF acc.cur = << >> THEN acc
                         ELSE [acc EXCEPT !.cur = SubSeq(@, 1, Len(@) - 1),
                                          !.echo = Append(@, <<8, 32, 8>>)]
                    ELSE IF IsPrintableKey(key)
                    THEN [acc EXCEPT !.cur = Append(@, key),
                                     !.echo = Append(@, key)]
                    ELSE acc
         IN  TypedFold(Tail(keys), nxt)

\* The line editor after the keys emitted so far.
Typed == TypedFold(KeyLog, [cur |-> << >>, lines |-> << >>, echo |-> << >>])

\* C10: in line mode the delivered lines are the typed printable characters
\* with each Backspace cancelling the character before it: the line being
\* typed holds exactly the bytes of the characters not cancelled, with their
\* byte lengths recorded, Backspace on an empty line changes nothing and
\* echoes nothing, and h, e, y, Backspace, y, Enter delivers exactly "hey".
C10_LineAssembly ==
    (scenario.kind = "line" /\ inLineReadMode) =>
        LET typed == Typed
        IN  /\ DataOf(events, "line") = typed.lines
            /\ currentLine = Concat(typed.cur)
            /\ charByteLengths = [i \in 1..Len(typed.cur) |-> Len(typed.cur[i])]
            /\ DataOf(events, "echo") = (IF echoSet THEN typed.echo ELSE << >>)
            /\ consumed = B("hey") \o <<127>> \o B("y") \o <<13>> =>
                   DataOf(events, "line") = <<B("hey")>> /\ currentLine = << >>

\* C10 witness: h, e, y, Backspace, y, Enter were typed in line mode and the
\* line "hey" was delivered.
C10_Witness ==
    /\ scenario.kind = "line"
    /\ inLineReadMode
    /\ consumed = B("hey") \o <<127>> \o B("y") \o <<13>>
    /\ KeyLog = <<B("h"), B("e"), B("y"), B("Backspace"), B("y"), B("Enter")>>
    /\ DataOf(events, "line") = <<B("hey")>>

\* ------------------------------------------------------------------------
\* SpecKeys: emitKey's send on a full Keys channel, step by step, beside a
\* consumer
\* ------------------------------------------------------------------------

\* The most keys emitted.
MaxEmits == 5

\* The keys emitted.
EmittedKeys == {B("a"), B("b")}

\* A drop that takes the newest key of the channel.
DropNewest(q) == SubSeq(q, 1, Len(q) - 1)

\* <-h.Keys in emitKey: the receive takes the oldest key of the channel.
DropOldest(q) == Tail(q)

\* emitKey(key) outside line mode, up to its send: Option decoding and the
\* OnKey callback.
EmitKeyBegin(key) ==
    /\ emitPc = "idle"
    /\ ~inLineReadMode
    /\ Len(KeyLog) < MaxEmits
    /\ Becomes(Deliver(Cur, "key", OptionDecoded(Cur, key), FALSE))
    /\ emitPending' = OptionDecoded(Cur, key)
    /\ emitPc' = "send"
    /\ UNCHANGED <<mu, script, scenario, consumed, nchunks, timeoutsAt, running,
                   stopClosed, readers, workers, rawBytes, calls>>

\* The first select: the key is sent when the channel has room.
EmitSend ==
    /\ emitPc = "send"
    /\ IF Len(Keys) < KeyBufferSize
       THEN /\ Becomes(Pushed([Cur EXCEPT !.Keys = Append(@, emitPending)],
                              "Keys", emitPending))
            /\ emitPc' = "idle"
       ELSE /\ Becomes(Cur)
            /\ emitPc' = "drop"
    /\ UNCHANGED <<mu, script, scenario, consumed, nchunks, timeoutsAt, emitPending,
                   running, stopClosed, readers, workers, rawBytes, calls>>

\* The second select: the oldest key is received and dropped, when there is one.
EmitDrop ==
    /\ emitPc = "drop"
    /\ Becomes([Cur EXCEPT !.Keys = IF @ # << >> THEN DropOldest(@) ELSE @])
    /\ emitPc' = "retry"
    /\ UNCHANGED <<mu, script, scenario, consumed, nchunks, timeoutsAt, emitPending,
                   running, stopClosed, readers, workers, rawBytes, calls>>

\* The third select: the key is sent, or given up when the channel is full
\* again.
EmitRetry ==
    /\ emitPc = "retry"
    /\ IF Len(Keys) < KeyBufferSize
       THEN Becomes(Pushed([Cur EXCEPT !.Keys = Append(@, emitPending)],
                           "Keys", emitPending))
       ELSE Becomes(Cur)
    /\ emitPc' = "idle"
    /\ UNCHANGED <<mu, script, scenario, consumed, nchunks, timeoutsAt, emitPending,
                   running, stopClosed, readers, workers, rawBytes, calls>>

\* The application receives a key from h.Keys.
ConsumerTake ==
    /\ Keys # << >>
    /\ Becomes([Cur EXCEPT !.Keys = Tail(@)])
    /\ UNCHANGED <<script, scenario, consumed, nchunks, timeoutsAt>>
    /\ UNCHANGED lifeVars

\* The worker's next step inside emitKey.
EmitStep == EmitSend \/ EmitDrop \/ EmitRetry

InitKeys ==
    /\ \E decode \in BOOLEAN : InitHandler(FALSE, decode, 1, FALSE, FALSE)
    /\ scenario = [kind |-> "keys"]
    /\ script = << >>

NextKeys ==
    \/ \E key \in EmittedKeys : EmitKeyBegin(key)
    \/ EmitSend
    \/ EmitDrop
    \/ EmitRetry
    \/ ConsumerTake

SpecKeys == InitKeys /\ [][NextKeys]_vars

CallbackOf(queue) == IF queue = "Keys" THEN "key" ELSE "line"

\* The number of the first n sends that went to queue.
SendsTo(queue, n) ==
    Cardinality({i \in 1..n : pushes[i].queue = queue})

\* C12: for every key sent on h.Keys and every line sent on h.Lines, the
\* callback for that event (OnKey, OnLine) was invoked before the send: at
\* the send, as many callbacks of that kind as sends on that channel had
\* been made, the last of them with the data sent.
C12_CallbackBeforeEnqueue ==
    \A i \in 1..Len(pushes) :
        LET before == DataOf(SubSeq(events, 1, pushes[i].seen),
                             CallbackOf(pushes[i].queue))
        IN  /\ Len(before) >= SendsTo(pushes[i].queue, i)
            /\ before[Len(before)] = pushes[i].data

\* ------------------------------------------------------------------------
\* SpecLife: Start and Stop calls, the readers and the workers
\* ------------------------------------------------------------------------

\* The most Start and Stop calls made.
MaxCalls == 4

\* Capacity of the h.rawBytes channel.
RawBytesSize == 2

\* Enter, often enough to fill h.Lines and have two more lines completed.
EnterScript == [i \in 1..(LineBufferSize + 2) |-> 13]

\* What the input source delivers: a lone ESC, a 2-byte character, ESC with
\* a letter, and the Enters.
LifeScripts == {<<ESC>>, <<195, 169>>, <<ESC, 97>>, EnterScript}

\* A call panicked: the process is gone.
Crashed == calls # << >> /\ calls[Len(calls)].result = "panic"

\* What the Start and Stop calls and the readers leave alone.
decoderVars ==
    <<inEscape, escBuffer, utf8Buffer, utf8Remaining, inPaste, pasteBuffer,
      fullPasteContent, timerArmed, timerC, asyncTimerChan, inLineReadMode,
      currentLine, charByteLengths, Keys, Lines, decodeMacOSOption,
      pasteChunkSize, onPasteChunkSet, echoSet, events, pushes, consumed,
      nchunks, timeoutsAt, emitPc, emitPending, mu, scenario>>

\* Start that does not look at h.running.
StartAgain ==
    /\ ~Crashed
    /\ Len(calls) < MaxCalls
    /\ running' = TRUE
    /\ readers' = Append(readers, Reader("select", << >>))
    /\ workers' = Append(workers, Worker("select", << >>, FALSE, 0))
    /\ calls' = Append(calls, [op |-> "Start", result |-> "ok"])
    /\ UNCHANGED <<stopClosed, rawBytes, script>>
    /\ UNCHANGED decoderVars

\* Start(): an error when already running; else running is set and a
\* readLoop and a processLoop goroutine are started.
Start ==
    /\ ~Crashed
    /\ Len(calls) < MaxCalls
    /\ IF running
       THEN /\ calls' = Append(calls, [op |-> "Start", result |-> "error"])
            /\ UNCHANGED <<running, readers, workers>>
       ELSE /\ running' = TRUE
            /\ readers' = Append(readers, Reader("select", << >>))
            /\ workers' = Append(workers, Worker("select", << >>, FALSE, 0))
            /\ calls' = Append(calls, [op |-> "Start", result |-> "ok"])
    /\ UNCHANGED <<stopClosed, rawBytes, script>>
    /\ UNCHANGED decoderVars

\* Stop(): nil when not running; else close(h.stopChan), which panics when
\* the channel is closed already, and running is cleared.
Stop ==
    /\ ~Crashed
    /\ Len(calls) < MaxCalls
    /\ IF ~running
       THEN /\ calls' = Append(calls, [op |-> "Stop", result |-> "ok"])
            /\ UNCHANGED <<running, stopClosed>>
       ELSE IF stopClosed
       THEN /\ calls' = Append(calls, [op |-> "Stop", result |-> "panic"])
            /\ UNCHANGED <<running, stopClosed>>
       ELSE /\ stopClosed' = TRUE
            /\ running' = FALSE
            /\ calls' = Append(calls, [op |-> "Stop", result |-> "ok"])
    /\ UNCHANGED <<readers, workers, rawBytes, script>>
    /\ UNCHANGED decoderVars

\* readLoop's outer select: return when stopChan is closed, else call Read.
ReaderSelect(i) ==
    /\ ~Crashed
    /\ readers[i].pc = "select"
    /\ readers' = [readers EXCEPT ![i].pc = IF stopClosed THEN "done" ELSE "read"]
    /\ UNCHANGED <<running, stopClosed, workers, rawBytes, calls, script>>
    /\ UNCHANGED decoderVars

\* inputReader.Read returns the next k bytes of the source.
ReaderRead(i, k) ==
    /\ ~Crashed
    /\ readers[i].pc = "read"
    /\ k \in 1..Len(script)
    /\ readers' = [readers EXCEPT ![i] = Reader("send", Upto(script, k))]
    /\ script' = From(script, k)
    /\ UNCHANGED <<running, stopClosed, workers, rawBytes, calls>>
    /\ UNCHANGED decoderVars

\* inputReader.Read returns an error (end of stream included): readLoop
\* returns.
ReaderFail(i) ==
    /\ ~Crashed
    /\ readers[i].pc = "read"
    /\ readers' = [readers EXCEPT ![i].pc = "failed"]
    /\ UNCHANGED <<running, stopClosed, workers, rawBytes, calls, script>>
    /\ UNCHANGED decoderVars

\* The send of readLoop that gives the data up when h.rawBytes is full.
ReaderSendDrops(i) ==
    /\ ~Crashed
    /\ readers[i].pc = "send"
    /\ rawBytes' = IF Len(rawBytes) < RawBytesSize
                   THEN Append(rawBytes, readers[i].data)
                   ELSE rawBytes
    /\ readers' = [readers EXCEPT ![i] = Reader("select", << >>)]
    /\ UNCHANGED <<running, stopClosed, workers, calls, script>>
    /\ UNCHANGED decoderVars

\* readLoop's inner select, the send case: the data goes on h.rawBytes.
ReaderSend(i) ==
    /\ ~Crashed
    /\ readers[i].pc = "send"
    /\ Len(rawBytes) < RawBytesSize
    /\ rawBytes' = Append(rawBytes, readers[i].data)
    /\ readers' = [readers EXCEPT ![i] = Reader("select", << >>)]
    /\ UNCHANGED <<running, stopClosed, workers, calls, script>>
    /\ UNCHANGED decoderVars

\* readLoop's inner select, the stop case: readLoop returns with its data.
ReaderSendStopped(i) ==
    /\ ~Crashed
    /\ readers[i].pc = "send"
    /\ stopClosed
    /\ readers' = [readers EXCEPT ![i] = Reader("done", << >>)]
    /\ UNCHANGED <<running, stopClosed, workers, rawBytes, calls, script>>
    /\ UNCHANGED decoderVars

\* processLoop's select, the stop case: processLoop returns.
WorkerStop(j) ==
    /\ ~Crashed
    /\ workers[j].pc = "select"
    /\ stopClosed
    /\ workers' = [workers EXCEPT ![j].pc = "done"]
    /\ UNCHANGED <<running, stopClosed, readers, rawBytes, calls, script>>
    /\ UNCHANGED decoderVars

\* processLoop's select, the data case: a chunk is taken from h.rawBytes.
WorkerTake(j) ==
    /\ ~Crashed
    /\ workers[j].pc = "select"
    /\ rawBytes # << >>
    /\ workers' = [workers EXCEPT ![j].pc = "busy", ![j].data = Head(rawBytes)]
    /\ rawBytes' = Tail(rawBytes)
    /\ nchunks' = IF nchunks < MaxChunks THEN nchunks + 1 ELSE nchunks
    /\ UNCHANGED <<inEscape, escBuffer, utf8Buffer, utf8Remaining, inPaste,
                   pasteBuffer, fullPasteContent, timerArmed, timerC,
                   asyncTimerChan, inLineReadMode, currentLine, charByteLengths,
                   Keys, Lines, decodeMacOSOption, pasteChunkSize,
                   onPasteChunkSet, echoSet, events, pushes, consumed,
                   timeoutsAt, emitPc, emitPending, mu, scenario, running,
                   stopClosed, readers, calls, script>>

\* The handler's fields and worker j's escTimeout as one record.
CurOf(j) ==
    [Cur EXCEPT !.timerArmed = workers[j].armed, !.timerC = workers[j].c]

\* The handler's fields after worker j has run processByte on the next byte
\* of its chunk, with its escTimeout.
AfterByte(j) == processBytes(CurOf(j), <<Head(workers[j].data)>>)

\* The handler's fields after worker j has handled the expiry of its
\* escTimeout.
AfterTimeout(j) == HandleTimeout(CurOf(j))

\* The handler's fields of st; a worker's escTimeout is its own.
HandlerFields(st) == [st EXCEPT !.timerArmed = timerArmed, !.timerC = timerC]

\* processByte, which leads to st, completes a line while h.Lines is full:
\* the first select of the send in handleLineAssembly takes its default.
LineSendWaits(st) ==
    /\ inLineReadMode
    /\ Len(Lines) = LineBufferSize
    /\ Len(st.pushes) > Len(pushes)
    /\ st.pushes[Len(st.pushes)].queue = "Lines"

\* The loop over the bytes of the chunk: processByte on the next byte, with
\* this worker's escTimeout.
WorkerByte(j) ==
    /\ ~Crashed
    /\ workers[j].pc = "busy"
    /\ \E st \in {AfterByte(j)} :
           /\ ~LineSendWaits(st)
           /\ Becomes(HandlerFields(st))
           /\ workers' = [workers EXCEPT ![j] =
                  Worker(IF Len(workers[j].data) = 1 THEN "select" ELSE "busy",
                         Tail(workers[j].data), st.timerArmed, st.timerC)]
    /\ consumed' = Append(consumed, Head(workers[j].data))
    /\ UNCHANGED <<nchunks, timeoutsAt, emitPc, emitPending, mu, scenario, running,
                   stopClosed, readers, rawBytes, calls, script>>

\* processByte on a byte that completes a line while h.Lines is full, up to
\* the inner select of the send: OnKey is called, the line is taken out of
\* h.currentLine and the oldest line is received from h.Lines.
WorkerLineDrop(j) ==
    /\ ~Crashed
    /\ workers[j].pc = "busy"
    /\ \E st \in {AfterByte(j)} :
           /\ LineSendWaits(st)
           /\ Becomes([HandlerFields(st) EXCEPT
                          !.Lines = Tail(Lines),
                          !.pushes = pushes,
                          !.events = Upto(st.events, Len(st.events) - 1)])
           /\ workers' = [workers EXCEPT ![j].pc = "sendLine",
                                         ![j].line = st.pushes[Len(st.pushes)].data,
                                         ![j].armed = st.timerArmed,
                                         ![j].c = st.timerC]
    /\ UNCHANGED <<consumed, nchunks, timeoutsAt, emitPc, emitPending, mu, scenario,
                   running, stopClosed, readers, rawBytes, calls, script>>

\* The last send of the line, h.Lines <- lineBytes, which waits for room;
\* then OnLine, and the loop goes to the next byte.
WorkerLineSend(j) ==
    /\ ~Crashed
    /\ workers[j].pc = "sendLine"
    /\ Len(Lines) < LineBufferSize
    /\ Becomes(Deliver(Pushed([Cur EXCEPT !.Lines = Append(@, workers[j].line)],
                              "Lines", workers[j].line),
                       "line", workers[j].line, FALSE))
    /\ workers' = [workers EXCEPT
           ![j].pc = IF Len(workers[j].data) = 1 THEN "select" ELSE "busy",
           ![j].data = Tail(workers[j].data),
           ![j].line = << >>]
    /\ consumed' = Append(consumed, Head(workers[j].data))
    /\ UNCHANGED <<nchunks, timeoutsAt, emitPc, emitPending, mu, scenario, running,
                   stopClosed, readers, rawBytes, calls, script>>

\* The runtime fires worker j's escTimeout.
WorkerTimerExpire(j) ==
    /\ ~Crashed
    /\ workers[j].pc # "done"
    /\ workers[j].armed
    /\ workers' = [workers EXCEPT ![j].armed = FALSE, ![j].c = 1]
    /\ UNCHANGED <<running, stopClosed, readers, rawBytes, calls, script>>
    /\ UNCHANGED decoderVars

\* processLoop's select, the escTimeout.C case.
WorkerTimeout(j) ==
    /\ ~Crashed
    /\ workers[j].pc = "select"
    /\ workers[j].c = 1
    /\ Len(timeoutsAt) < MaxTimeouts
    /\ \E st \in {AfterTimeout(j)} :
           /\ Becomes(HandlerFields(st))
           /\ workers' = [workers EXCEPT ![j].armed = st.timerArmed, ![j].c = 0]
    /\ timeoutsAt' = Append(timeoutsAt, Len(consumed))
    /\ UNCHANGED <<consumed, nchunks, emitPc, emitPending, mu, scenario, running,
                   stopClosed, readers, rawBytes, calls, script>>

InitLife ==
    /\ NewFields(FALSE, FALSE, 1, FALSE, FALSE)
    /\ NotStarted
    /\ script \in LifeScripts
    /\ scenario = [kind |-> "life", input |-> script]

\* The application turns line mode on before it starts the handler, when
\* the input is the Enters.
LineModeOn ==
    /\ calls = << >>
    /\ script = EnterScript
    /\ ~inLineReadMode
    /\ SetLineMode(TRUE)

\* One step of reader i that does not wait for the input source.
ReaderStep(i) == ReaderSelect(i) \/ ReaderSend(i) \/ ReaderSendStopped(i)

\* One step of worker j on data or on its timer.
WorkerStep(j) ==
    \/ WorkerTake(j)
    \/ WorkerByte(j)
    \/ WorkerLineDrop(j)
    \/ WorkerLineSend(j)
    \/ WorkerTimeout(j)

NextLife ==
    \/ Start
    \/ Stop
    \/ LineModeOn
    \/ \E i \in DOMAIN readers : ReaderSelect(i)
    \/ \E i \in DOMAIN readers : \E k \in 1..Len(script) : ReaderRead(i, k)
    \/ \E i \in DOMAIN readers : ReaderFail(i)
    \/ \E i \in DOMAIN readers : ReaderSend(i)
    \/ \E i \in DOMAIN readers : ReaderSendStopped(i)
    \/ \E j \in DOMAIN workers : WorkerStop(j)
    \/ \E j \in DOMAIN workers : WorkerTake(j)
    \/ \E j \in DOMAIN workers : WorkerByte(j)
    \/ \E j \in DOMAIN workers : WorkerLineDrop(j)
    \/ \E j \in DOMAIN workers : WorkerLineSend(j)
    \/ \E j \in DOMAIN workers : WorkerTimerExpire(j)
    \/ \E j \in DOMAIN workers : WorkerTimeout(j)

\* The scheduler runs every goroutine that can take a step, a select picks
\* every case that stays ready, and a running timer fires; the callers of
\* Start and Stop and the input source owe nothing.
FairLife ==
    \A n \in 1..MaxCalls :
        /\ WF_vars(n \in DOMAIN readers /\ ReaderStep(n))
        /\ WF_vars(n \in DOMAIN workers /\ WorkerStop(n))
        /\ WF_vars(n \in DOMAIN workers /\ WorkerStep(n))
        /\ WF_vars(n \in DOMAIN workers /\ WorkerTimerExpire(n))

SpecLife == InitLife /\ [][NextLife]_vars /\ FairLife

\* The step is a call of op that returned or panicked.
CallOf(op) ==
    /\ Len(calls') = Len(calls) + 1
    /\ calls'[Len(calls')].op = op

\* The result of the call the step makes.
CallResult == calls'[Len(calls')].result

\* The goroutines that have not returned.
LiveReaders == {i \in DOMAIN readers : readers[i].pc \notin {"done", "failed"}}

LiveWorkers == {j \in DOMAIN workers : workers[j].pc # "done"}

\* The workers inside the loop over the bytes of a chunk.
BusyWorkers == {j \in DOMAIN workers : workers[j].pc \in {"busy", "sendLine"}}

\* C13: Start on a handler that is running returns an error, leaves running
\* set, and starts no further reader or worker.
C13_StartWhileRunning ==
    [][(running /\ CallOf("Start")) =>
           /\ CallResult = "error"
           /\ running'
           /\ readers' = readers
           /\ workers' = workers
           /\ stopClosed' = stopClosed]_vars

C13_Witness ==
    /\ scenario.kind = "life"
    /\ running
    /\ Len(calls) = 2
    /\ calls[2] = [op |-> "Start", result |-> "error"]
    /\ Len(readers) = 1
    /\ Len(workers) = 1

\* C14: Stop on a handler that is not running reports an error and changes
\* no state.
C14_StopWhileStopped ==
    [][(~running /\ CallOf("Stop")) =>
           /\ CallResult = "error"
           /\ UNCHANGED <<running, stopClosed, readers, workers, rawBytes>>]_vars

\* C15: no sequence of Start and Stop calls makes a call panic.
C15_NoPanic == \A n \in DOMAIN calls : calls[n].result # "panic"

\* C16: once a reader has ended on a read error, every worker eventually
\* returns.
C16_ReadErrorStopsWorker ==
    (\E i \in DOMAIN readers : readers[i].pc = "failed")
        ~> (Crashed \/ LiveWorkers = {})

\* C17: once Stop has closed stopChan, every reader eventually returns, also
\* when the source delivers nothing more.
C17_StopEndsReader == stopClosed ~> (Crashed \/ LiveReaders = {})

\* C18: once Stop has closed stopChan, every worker eventually returns from
\* its loop, and none stays at a send on a queue.
C18_StopEndsWorker == stopClosed ~> (Crashed \/ LiveWorkers = {})

\* C20: at most one worker is inside the loop over the bytes of a chunk.
C20_OneWorker == Cardinality(BusyWorkers) <= 1

\* ------------------------------------------------------------------------
\* Bytes consumed and bytes held
\* ------------------------------------------------------------------------

\* The bytes the decoder holds back: the pending escape sequence and the
\* pending UTF-8 character.
HeldBytes == Len(escBuffer) + Len(utf8Buffer)

\* C19: outside line mode and outside a paste, a step that takes at most one
\* byte and after which fewer bytes are held than were held plus the byte
\* taken emits at least one key: a byte leaves the decoder only with a key.
C19_NoByteDiscarded ==
    [][(/\ ~inLineReadMode
        /\ ~inPaste
        /\ ~inPaste'
        /\ Len(consumed') <= Len(consumed) + 1
        /\ HeldBytes' < HeldBytes + (Len(consumed') - Len(consumed)))
           => Len(KeyLog') > Len(KeyLog)]_vars

\* C19 witness: the pending ESC [ left the escape buffer at the expiry of the
\* timer with the key M-[, and a UTF-8 lead byte taken since is held.
C19_Witness ==
    /\ scenario.kind = "any"
    /\ ~inPaste
    /\ consumed = <<ESC, 91, 195>>
    /\ timeoutsAt = <<2>>
    /\ utf8Buffer = <<195>>
    /\ escBuffer = << >>
    /\ KeyLog = <<B("M-[")>>

\* ------------------------------------------------------------------------
\* The timer and the bytes
\* ------------------------------------------------------------------------

\* The expiry in the timer's channel is stale: the timer is running, so it
\* was stopped or re-armed by a byte processed after that expiry was sent.
StaleExpiry == timerC = 1 /\ timerArmed

\* C21: the worker acts on an expiry (resolves the pending escape buffer)
\* only when that expiry is not stale.
C21_NoStaleExpiry ==
    [][(TimeoutStep /\ inEscape /\ escBuffer # << >>) => ~StaleExpiry]_vars

\* ------------------------------------------------------------------------
\* SpecRoute: emitKey's choice between h.Keys and the line assembly, step by
\* step, beside SetLineMode calls
\* ------------------------------------------------------------------------

\* emitKey(key) up to its look at the mode: Option decoding and the OnKey
\* callback.
RouteKeyBegin(key) ==
    /\ emitPc = "idle"
    /\ Len(KeyLog) < MaxEmits
    /\ Becomes(Deliver(Cur, "key", OptionDecoded(Cur, key), FALSE))
    /\ emitPending' = OptionDecoded(Cur, key)
    /\ emitPc' = "mode"
    /\ UNCHANGED <<mu, script, scenario, consumed, nchunks, timeoutsAt, running,
                   stopClosed, readers, workers, rawBytes, calls>>

\* inLineMode := h.inLineReadMode, read under the mutex, which is released
\* before the key goes on.
RouteReadMode ==
    /\ emitPc = "mode"
    /\ emitPc' = IF inLineReadMode THEN "line" ELSE "send"
    /\ Becomes(Cur)
    /\ UNCHANGED <<mu, script, scenario, consumed, nchunks, timeoutsAt, emitPending,
                   running, stopClosed, readers, workers, rawBytes, calls>>

\* h.handleLineAssembly(key), which looks at h.inLineReadMode again.
RouteLine ==
    /\ emitPc = "line"
    /\ Becomes(handleLineAssembly(Cur, emitPending))
    /\ emitPc' = "idle"
    /\ UNCHANGED <<mu, script, scenario, consumed, nchunks, timeoutsAt, emitPending,
                   running, stopClosed, readers, workers, rawBytes, calls>>

\* The application calls SetLineMode(enabled) and changes the mode, at any
\* moment.
RouteSetLineMode(enabled) ==
    /\ enabled # inLineReadMode
    /\ SetLineMode(enabled)

InitRoute ==
    /\ InitHandler(FALSE, FALSE, 1, FALSE, FALSE)
    /\ scenario = [kind |-> "route"]
    /\ script = << >>

NextRoute ==
    \/ \E key \in EmittedKeys : RouteKeyBegin(key)
    \/ RouteReadMode
    \/ RouteLine
    \/ EmitSend
    \/ EmitDrop
    \/ EmitRetry
    \/ \E enabled \in BOOLEAN : RouteSetLineMode(enabled)

SpecRoute == InitRoute /\ [][NextRoute]_vars

\* C22: a key that emitKey hands to the line assembly is taken by it (line
\* mode is on when handleLineAssembly looks) and is not sent on h.Keys, and
\* a key that emitKey sends on h.Keys arrives there.
C22_OneDestination ==
    /\ [][(emitPc = "line" /\ emitPc' = "idle") =>
              (inLineReadMode /\ Keys' = Keys)]_vars
    /\ [][(emitPc \in {"send", "retry"} /\ emitPc' = "idle") =>
              Keys' = Append(Keys, emitPending)]_vars

\* ------------------------------------------------------------------------
\* SpecEdit: line mode switched on and off while letters, Enter and ^C are
\* typed
\* ------------------------------------------------------------------------

\* What the user types, one key per raw chunk: a letter, Enter and ^C.
EditChunks == {B("a"), <<13>>, <<3>>}

\* The user types a key.
EditType(data) == RecvChunk(data)

\* The application calls SetLineMode(enabled) and changes the mode.
EditSetLineMode(enabled) ==
    /\ enabled # inLineReadMode
    /\ SetLineMode(enabled)

InitEdit ==
    /\ \E echo \in BOOLEAN : InitHandler(FALSE, FALSE, 1, FALSE, echo)
    /\ scenario = [kind |-> "edit"]
    /\ script = << >>

NextEdit ==
    \/ \E data \in EditChunks : EditType(data)
    \/ \E enabled \in BOOLEAN : EditSetLineMode(enabled)

SpecEdit == InitEdit /\ [][NextEdit]_vars

\* The step takes the one byte b while line mode is on.
TypedInLineMode(b) == inLineReadMode /\ consumed' = Append(consumed, b)

\* C23: in line mode ^C sends an empty line on h.Lines, empties the line
\* buffer and echoes ^C and a newline, however full h.Lines is.
C23_InterruptDeliversLine ==
    [][TypedInLineMode(3) =>
           /\ Len(pushes') = Len(pushes) + 1
           /\ pushes'[Len(pushes')].queue = "Lines"
           /\ pushes'[Len(pushes')].data = << >>
           /\ Lines' # << >>
           /\ Lines'[Len(Lines')] = << >>
           /\ currentLine' = << >>
           /\ charByteLengths' = << >>
           /\ echoSet => DataOf(events', "echo") =
                             Append(DataOf(events, "echo"), B("^C") \o <<13, 10>>)]_vars

\* C24: after Enter is handled in line mode, and after SetLineMode(false),
\* h.currentLine and h.charByteLengths are empty.
C24_LineBufferReset ==
    /\ [][TypedInLineMode(13) =>
              (currentLine' = << >> /\ charByteLengths' = << >>)]_vars
    /\ [][(inLineReadMode /\ ~inLineReadMode') =>
              (currentLine' = << >> /\ charByteLengths' = << >>)]_vars

\* ------------------------------------------------------------------------
\* SpecFlood: a CSI sequence that never gets its final byte
\* ------------------------------------------------------------------------

\* The length an escape buffer is held to here; the input is one byte longer.
MaxEscapeLen == 8

\* ESC [ and then the digit 1 again and again: MaxEscapeLen + 1 bytes.
FloodScript == <<ESC, Ord("[")>> \o [i \in 1..(MaxEscapeLen - 1) |-> Ord("1")]

InitFlood ==
    /\ InitHandler(FALSE, FALSE, 1, FALSE, FALSE)
    /\ scenario = [kind |-> "flood"]
    /\ script = FloodScript

NextFlood ==
    \/ \E k \in 1..Len(script) : RecvNext(k)
    \/ TimerExpire
    \/ Timeout

SpecFlood == InitFlood /\ [][NextFlood]_vars

\* C25: the escape buffer holds at most MaxEscapeLen bytes.
C25_EscapeBufferBounded == Len(escBuffer) <= MaxEscapeLen

\* ------------------------------------------------------------------------
\* SpecEmbedded: a paste whose content holds an escape sequence
\* ------------------------------------------------------------------------

\* Paste contents with the sequence of the Up key in them, and the keys such
\* content is to come out as: every character on its own.
EmbeddedKeys ==
    (E("[A") :> <<B("Escape"), B("["), B("A")>>)
    @@ (B("a") \o E("[A") :> <<B("a"), B("Escape"), B("["), B("A")>>)
    @@ (E("[A") \o <<195, 169>> :>
            <<B("Escape"), B("["), B("A"), <<195, 169>>>>)

InitEmbedded ==
    /\ \E onChunk \in BOOLEAN : InitHandler(FALSE, FALSE, 1, onChunk, FALSE)
    /\ \E content \in DOMAIN EmbeddedKeys :
           /\ scenario = [kind |-> "embedded", content |-> content]
           /\ script = bracketedPasteStart \o content \o bracketedPasteEnd

SpecEmbedded == InitEmbedded /\ [][NextPaste]_vars

\* C26: a step that begins and ends in paste mode emits no key and leaves
\* the escape and UTF-8 state as it is; and once the paste has ended, the
\* keys emitted are the characters of the content one by one (Escape, [, A
\* for ESC [ A), with Up never among them.
C26_PasteIsOpaque ==
    /\ [][(inPaste /\ inPaste') =>
              /\ KeyLog' = KeyLog
              /\ inEscape' = inEscape
              /\ escBuffer' = escBuffer
              /\ utf8Buffer' = utf8Buffer
              /\ utf8Remaining' = utf8Remaining]_vars
    /\ []((scenario.kind = "embedded" /\ PasteStarted) =>
              /\ \A i \in 1..Len(KeyLog) : KeyLog[i] # B("Up")
              /\ inPaste => KeyLog = << >>
              /\ script = << >> => KeyLog = EmbeddedKeys[scenario.content])

\* C26 witness: the paste of ESC [ A, fed in several raw chunks, has ended
\* and come out as Escape, [ and A.
C26_Witness ==
    /\ scenario.kind = "embedded"
    /\ scenario.content = E("[A")
    /\ script = << >>
    /\ nchunks >= 3
    /\ ~inPaste
    /\ DataOf(events, "paste") = <<E("[A")>>
    /\ KeyLog = <<B("Escape"), B("["), B("A")>>

\* ------------------------------------------------------------------------
\* SpecLifeFed: SpecLife with an input source that delivers
\* ------------------------------------------------------------------------

\* The input source delivers what it has to a reader that waits in Read.
FairSource ==
    \A n \in 1..MaxCalls :
        WF_vars(n \in DOMAIN readers /\ \E k \in 1..Len(script) : ReaderRead(n, k))

SpecLifeFed == SpecLife /\ FairSource

\* A reader has ended on a read error.
ReadFailed == \E i \in DOMAIN readers : readers[i].pc = "failed"

\* C27: when the handler runs again after a Stop (Start has returned nil and
\* running is set), the bytes of the input are eventually all decoded, unless
\* a read fails or the handler is stopped again.
C27_RestartDecodes ==
    (running /\ stopClosed /\ ~Crashed)
        ~> (\/ Len(consumed) = Len(scenario.input)
            \/ ReadFailed
            \/ ~running
            \/ Crashed)

RECURSIVE ConcatAll(_)
\* The chunks of a queue, one after the other.
ConcatAll(q) == IF q = << >> THEN << >> ELSE Head(q) \o ConcatAll(Tail(q))

\* The bytes read and not yet passed to processByte, in the order read, when
\* there is one reader and one worker: the rest of the worker's chunk, the
\* chunks on h.rawBytes and the chunk the reader is about to send.
InFlight == workers[1].data \o ConcatAll(rawBytes) \o readers[1].data

FlushStep ==
    /\ inPaste
    /\ Len(consumed') = Len(consumed) + 1
    /\ Len(events') = Len(events) + 1
    /\ events'[Len(events')].kind = "chunk"
    /\ ~events'[Len(events')].final

\* C29: with OnPasteChunk set, every chunk that is not final has exactly the
\* configured size, right after a flush the paste buffer still holds at
\* least len(end marker) - 1 bytes, and the end marker ends the paste however
\* it lies across flushes and raw chunks.
C29_FlushKeepsTail ==
    /\ [](\A i \in 1..Len(events) :
              (events[i].kind = "chunk" /\ ~events[i].final) =>
                  Len(events[i].data) = pasteChunkSize)
    /\ [][FlushStep =>
              /\ inPaste'
              /\ Len(pasteBuffer') >= Len(bracketedPasteEnd) - 1
              /\ pasteBuffer' = From(Append(pasteBuffer, consumed'[Len(consumed')]),
                                     pasteChunkSize)]_vars
    /\ []((scenario.kind = "paste" /\ PasteStarted /\ script = << >>) => ~inPaste)

\* C29 witness: a chunk of one byte has just been flushed out of a paste
\* that holds the first bytes of the end marker, and the bytes kept back are
\* still in the buffer.
C29_Witness ==
    /\ scenario.kind = "paste"
    /\ PasteStarted
    /\ onPasteChunkSet
    /\ pasteChunkSize = 1
    /\ inPaste
    /\ events # << >>
    /\ events[Len(events)].kind = "chunk"
    /\ ~events[Len(events)].final
    /\ Len(pasteBuffer) = pasteEndBufferSize
    /\ script # << >>
    /\ Len(script) < Len(bracketedPasteEnd)

\* The places in the deliveries where a chunk marked final stands.
FinalChunks == {i \in 1..Len(events) : events[i].kind = "chunk" /\ events[i].final}

\* C30: with OnPasteChunk set, a paste that has ended has delivered exactly
\* one final chunk; every other chunk stands before it, OnPaste and every
\* key stand after it, and its content is the rest of the pasted content,
\* with no byte of the end marker; while the paste goes on no chunk is final.
C30_OneFinalChunk ==
    (scenario.kind = "paste" /\ PasteStarted /\ onPasteChunkSet) =>
        /\ inPaste => FinalChunks = {}
        /\ script = << >> =>
               /\ Cardinality(FinalChunks) = 1
               /\ \A f \in FinalChunks :
                      /\ \A i \in 1..Len(events) :
                             /\ events[i].kind = "chunk" => i <= f
                             /\ events[i].kind \in {"paste", "key", "line"} => i > f
                      /\ events[f + 1].kind = "paste"
                      /\ Concat(DataOf(SubSeq(events, 1, f - 1), "chunk"))
                             \o events[f].data = scenario.content

\* C30 witness: the paste of ESC[201x with chunk size 1 has ended; two or
\* more chunks were flushed, then the final one, then OnPaste and the keys.
C30_Witness ==
    /\ scenario.kind = "paste"
    /\ scenario.content = EndPrefix(5) \o B("x")
    /\ PasteStarted
    /\ onPasteChunkSet
    /\ pasteChunkSize = 1
    /\ script = << >>
    /\ ~inPaste
    /\ Cardinality(FinalChunks) = 1
    /\ \E f \in FinalChunks : f >= 3 /\ f + 1 < Len(events)
    /\ KeyLog # << >>

\* ------------------------------------------------------------------------
\* SpecSplice: a paste received in line mode
\* ------------------------------------------------------------------------

\* The pasted contents: with no line ending, with CR or LF in the middle, at
\* the start and doubled, with a tab, a 2-byte character, a control
\* character and DEL.
SpliceContents ==
    {B("ab"), B("a") \o <<13>> \o B("b"), <<10>> \o B("b"),
     B("a") \o <<9>> \o B("b") \o <<13, 10>>, <<195, 169, 13>>,
     B("a") \o <<1, 13>>, B("a") \o <<127, 13>>}

\* Line mode is turned on first; x may be typed before the paste arrives.
InitSplice ==
    /\ \E echo \in BOOLEAN : InitHandler(FALSE, FALSE, 1, FALSE, echo)
    /\ \E content \in SpliceContents, typed \in {<< >>, B("x")} :
           /\ scenario = [kind |-> "splice", content |-> content, typed |-> typed]
           /\ script = typed \o bracketedPasteStart \o content \o bracketedPasteEnd

NextSplice ==
    \/ EnterLineMode
    \/ \E k \in 1..Len(script) : RecvNext(k)
    \/ TimerExpire
    \/ Timeout

SpecSplice == InitSplice /\ [][NextSplice]_vars

\* A character that prints: not a control character, not DEL.
IsPrintRune(r) == r >= 32 /\ r # 127 /\ r \notin 128..159

\* Whether the content holds a CR or LF.
HasLineEnding(content) == \E i \in 1..Len(content) : content[i] \in {10, 13}

RECURSIVE SplicedPrefix(_)
\* The bytes of the printable characters and tabs of the content before its
\* first CR or LF.
SplicedPrefix(content) ==
    LET dec == DecodeRune(content)
    IN  IF content = << >> THEN << >>
        ELSE IF dec.r = RuneError /\ dec.size = 1 THEN SplicedPrefix(Tail(content))
        ELSE IF dec.r \in {10, 13} THEN << >>
        ELSE IF IsPrintRune(dec.r) \/ dec.r = 9
        THEN Upto(content, dec.size) \o SplicedPrefix(From(content, dec.size))
        ELSE SplicedPrefix(From(content, dec.size))

\* The paste of the script was received whole in line mode: line mode was
\* turned on before the first byte, and no timer expiry was handled between
\* the bytes of the start marker.
SplicedWhole ==
    /\ scenario.kind = "splice"
    /\ inLineReadMode
    /\ script = << >>
    /\ ~inPaste
    /\ \A i \in 1..Len(timeoutsAt) :
           \/ timeoutsAt[i] <= Len(scenario.typed)
           \/ timeoutsAt[i] >= Len(scenario.typed) + Len(bracketedPasteStart)

\* C31: a paste received whole in line mode emits no key on h.Keys; with a
\* CR or LF in it, exactly one line is delivered, the line typed so far
\* followed by the printable characters and tabs before the first CR or LF,
\* and the line buffer is left empty; with no CR or LF, no line is delivered
\* and the line buffer holds the typed line and the printable characters and
\* tabs of the content.
C31_PasteSplicedIntoLine ==
    SplicedWhole =>
        LET line == scenario.typed \o SplicedPrefix(scenario.content)
            sent == SelectSeq(pushes, LAMBDA p : p.queue = "Lines")
        IN  /\ Keys = << >>
            /\ HasLineEnding(scenario.content) =>
                   /\ Len(sent) = 1
                   /\ sent[1].data = line
                   /\ Lines = <<line>>
                   /\ DataOf(events, "line") = <<line>>
                   /\ currentLine = << >>
                   /\ charByteLengths = << >>
            /\ ~HasLineEnding(scenario.content) =>
                   /\ sent = << >>
                   /\ DataOf(events, "line") = << >>
                   /\ currentLine = line

\* ------------------------------------------------------------------------
\* SpecReports: mouse reports in the SGR and in the X10 form
\* ------------------------------------------------------------------------

\* Button codes of X10 reports: the three buttons, a release, with Shift, a
\* drag of the left and of the right button, the two scroll directions.
X10Codes == {0, 1, 2, 3, 4, 32, 34, 64, 65}

\* One X10 report ESC [ M Cb Cx Cy, each value biased by 32.
InitX10 ==
    /\ InitHandler(FALSE, FALSE, 1, FALSE, FALSE)
    /\ \E cb \in X10Codes, pos \in {<<5, 10>>, <<1, 1>>} :
           /\ scenario = [kind |-> "x10", cb |-> cb, cx |-> pos[1], cy |-> pos[2],
                          fin |-> Ord("M")]
           /\ script = E("[M") \o <<cb + 32, pos[1] + 32, pos[2] + 32>>

InitReports == InitMouse \/ InitX10

SpecReports == InitReports /\ [][NextMouse]_vars

\* The report of the scenario was received whole, with no timer expiry
\* handled between its bytes.
ReportReceived ==
    /\ scenario.kind \in {"mouse", "x10"}
    /\ script = << >>
    /\ timeoutsAt = << >>

\* The report of the scenario is a motion report: bit 5 set, not a scroll.
IsDragReport == Bit(scenario.cb, 5) /\ ~Bit(scenario.cb, 6)

\* The text x,y of the position the report of the scenario gives.
ReportedAt == Itoa(scenario.cx) \o B(",") \o Itoa(scenario.cy)

\* The words an action key of a press, release or scroll ends with.
ActionWords == {B("Press"), B("Release"), B("ScrollUp"), B("ScrollDown")}

\* C32: a mouse report received whole, SGR or X10, emits for a press, a
\* release or a scroll exactly two keys, Mouse@x,y and then the action key
\* (which holds no position), and for a motion report exactly one key, the
\* drag action ending with @x,y.
C32_MouseKeysInOrder ==
    ReportReceived =>
        IF IsDragReport
        THEN /\ Len(KeyLog) = 1
             /\ HasSuffix(KeyLog[1], B("Drag@") \o ReportedAt)
        ELSE /\ Len(KeyLog) = 2
             /\ KeyLog[1] = B("Mouse@") \o ReportedAt
             /\ \E w \in ActionWords : HasSuffix(KeyLog[2], w)
             /\ Ord("@") \notin {KeyLog[2][i] : i \in 1..Len(KeyLog[2])}
             /\ Bit(scenario.cb, 6) <=>
                    \E w \in {B("ScrollUp"), B("ScrollDown")} : HasSuffix(KeyLog[2], w)

\* C32 witness: the X10 report of a press of the right button at 5,10 has
\* emitted its two keys.
C32_Witness ==
    /\ scenario.kind = "x10"
    /\ scenario.cb = 2
    /\ script = << >>
    /\ timeoutsAt = << >>
    /\ KeyLog = <<B("Mouse@5,10"), B("MouseRightPress")>>

\* ------------------------------------------------------------------------
\* SpecKitty: Kitty key reports with modifiers and event types
\* ------------------------------------------------------------------------

\* The keys reported: a, Enter, F1 and e with acute accent, by keycode, with
\* the name each has unmodified.
KittyKeys ==
    (97 :> B("a")) @@ (13 :> B("Enter")) @@ (57364 :> B("F1")) @@ (233 :> <<195, 169>>)

\* The modifier parameters used: none, Shift, Control.
KittyMods == {1, 2, 5}

\* The report ESC [ keycode u, ESC [ keycode ; mod u or
\* ESC [ keycode ; mod : event u; mod 0 and event 0 stand for an absent field.
KittyReport(keycode, mod, et) ==
    E("[") \o Itoa(keycode)
    \o (IF mod = 0 THEN << >> ELSE B(";") \o Itoa(mod))
    \o (IF et = 0 THEN << >> ELSE B(":") \o Itoa(et))
    \o B("u")

InitKitty ==
    /\ InitHandler(FALSE, FALSE, 1, FALSE, FALSE)
    /\ \E keycode \in DOMAIN KittyKeys, mod \in KittyMods \cup {0}, et \in 0..3 :
           /\ mod = 0 => et = 0
           /\ scenario = [kind |-> "kitty", keycode |-> keycode, mod |-> mod, et |-> et]
           /\ script = KittyReport(keycode, mod, et)

SpecKitty == InitKitty /\ [][NextCSI]_vars

\* The name of the key of the scenario when it is pressed with the modifier
\* of the scenario.
KittyPressName ==
    LET k == scenario.keycode
        m == scenario.mod
    IN  IF m \in {0, 1} THEN KittyKeys[k]
        ELSE IF k = 97 THEN (IF m = 2 THEN B("A") ELSE B("^A"))
        ELSE (IF m = 2 THEN B("S-") ELSE B("C-")) \o KittyKeys[k]

\* The report of the scenario was received whole, with no timer expiry
\* handled between its bytes.
KittyReceived ==
    /\ scenario.kind = "kitty"
    /\ script = << >>
    /\ timeoutsAt = << >>

UnknownCodes == {1, 31, 1114112}

\* One report ESC [ keycode u, of a special key or of an unknown keycode.
InitKittyCodes ==
    /\ InitHandler(FALSE, FALSE, 1, FALSE, FALSE)
    /\ \E keycode \in DOMAIN kittySpecialKeys \cup UnknownCodes :
           /\ scenario = [kind |-> "kitty", keycode |-> keycode, mod |-> 0, et |-> 0]
           /\ script = KittyReport(keycode, 0, 0)

SpecKittyCodes == InitKittyCodes /\ [][NextCSI]_vars

\* C34: the report ESC [ keycode u of a keycode of the special-key table,
\* received whole, emits exactly one key, the name the table gives.
C34_KittySpecialKeyName ==
    (KittyReceived /\ scenario.keycode \in DOMAIN kittySpecialKeys) =>
        KeyLog = <<kittySpecialKeys[scenario.keycode]>>

\* C35: the report ESC [ keycode u of an unknown keycode, received whole,
\* emits no key.
C35_UnknownKittyCodeSilent ==
    (KittyReceived /\ scenario.keycode \in UnknownCodes) => KeyLog = << >>

\* ------------------------------------------------------------------------
\* The order of the modifiers in a key name
\* ------------------------------------------------------------------------

\* The modifier tokens of a bitmask in the order Super, Alt, Control, Shift.
OrderedPrefix(mask) ==
    (IF Bit(mask, 3) THEN B("s-") ELSE << >>)
    \o (IF Bit(mask, 1) THEN B("M-") ELSE << >>)
    \o (IF Bit(mask, 2) THEN B("C-") ELSE << >>)
    \o (IF Bit(mask, 0) THEN B("S-") ELSE << >>)

\* C36: a cursor key report ESC [ 1 ; m X received whole, whose mask m - 1
\* holds two modifiers or more, emits one key: the name of the cursor key
\* after the modifier tokens in the order Super, Alt, Control, Shift.
C36_ModifierOrder ==
    (/\ scenario.kind = "csi"
     /\ script = << >>
     /\ timeoutsAt = << >>
     /\ Cardinality(ModifierTokens(scenario.m - 1)) >= 2) =>
        KeyLog = <<OrderedPrefix(scenario.m - 1) \o CursorKeys[scenario.letter]>>

\* ------------------------------------------------------------------------
\* SpecPending: escape sequences that stop short
\* ------------------------------------------------------------------------

\* Inputs that end inside an escape sequence, or hold one that is resolved
\* and then another that is begun: a lone ESC, unfinished CSI, SS3, SGR and
\* X10 mouse sequences, the unfinished Option+arrow and paste start, Alt+a
\* followed by ESC, Up followed by ESC [.
PendingScripts ==
    {<<ESC>>, E("["), E("[1;5"), E("O"), <<ESC>> \o E("["), E("[<0;5"),
     E("[M") \o <<33>>, E("[200"), E("a") \o <<ESC>>, E("[A") \o E("[")}

InitPending ==
    /\ \E async \in BOOLEAN : InitHandler(async, FALSE, 1, FALSE, FALSE)
    /\ script \in PendingScripts
    /\ scenario = [kind |-> "pending", input |-> script]

\* Timeout can be taken: an expiry is in escTimeout.C (and the worker has
\* not handled the expiries counted).
TimeoutReady == timerC = 1 /\ Len(timeoutsAt) < MaxTimeouts

\* The runtime fires a running timer, and the worker's select takes the
\* expiry of escTimeout.C when nothing else happens; that the input source
\* delivers more bytes is not assumed.  The second conjunct is weak fairness
\* of Timeout written out: Timeout is enabled exactly when TimeoutReady, and
\* the steps that add to timeoutsAt are exactly its steps.
FairTimer ==
    /\ WF_vars(TimerExpire)
    /\ ([]<>~TimeoutReady \/ []<><<TimeoutStep>>_vars)

SpecPending == InitPending /\ [][NextCSI]_vars /\ FairTimer

\* The keys emitted in this step.
NewKeys == SubSeq(KeyLog', Len(KeyLog) + 1, Len(KeyLog'))

\* C37: whenever processing bytes leaves the decoder in escape mode the
\* timer runs; the expiry the worker handles while an escape sequence is
\* pending ends escape mode with an empty buffer and emits either one Alt key
\* or Escape and then the buffered bytes; and, while the worker has not
\* handled the expiries counted, an escape sequence that is pending is
\* eventually resolved even if no further byte arrives.
C37_PendingEscapeResolved ==
    /\ [][(consumed' # consumed /\ inEscape') => timerArmed']_vars
    /\ [](inEscape => (escBuffer # << >> /\ (timerArmed \/ timerC = 1)))
    /\ [][(TimeoutStep /\ inEscape) =>
              /\ ~inEscape'
              /\ escBuffer' = << >>
              /\ \/ /\ Len(escBuffer) = 2
                    /\ Len(NewKeys) = 1
                    /\ Upto(NewKeys[1], 2) = B("M-")
                 \/ /\ Len(NewKeys) = Len(escBuffer)
                    /\ NewKeys[1] = B("Escape")]_vars
    /\ (inEscape /\ Len(timeoutsAt) < MaxTimeouts) ~> (~inEscape /\ escBuffer = << >>)

\* C37 witness: ESC [ 1 ; 5 was received and nothing after it; the timer
\* fired and the worker emitted Escape and the four bytes.
C37_Witness ==
    /\ scenario.kind = "pending"
    /\ scenario.input = E("[1;5")
    /\ script = << >>
    /\ Len(timeoutsAt) = 1
    /\ timeoutsAt[1] = Len(scenario.input)
    /\ ~inEscape
    /\ escBuffer = << >>
    /\ KeyLog = <<B("Escape"), B("["), B("1"), B(";"), B("5")>>

\* ------------------------------------------------------------------------
\* The send of a completed line
\* ------------------------------------------------------------------------

\* The workers at the last send of a line, h.Lines <- lineBytes.
LineSenders == {j \in DOMAIN workers : workers[j].pc = "sendLine"}

\* C38: a worker that has made room in the full h.Lines and is at the last
\* send of its line finds room there: it never waits at that send.
C38_LineSendFindsRoom == LineSenders # {} => Len(Lines) < LineBufferSize

\* ------------------------------------------------------------------------
\* SpecBuffer: the line buffer under typing, pastes and SetLineMode
\* ------------------------------------------------------------------------

\* A paste of a 4-byte and a 3-byte character, with no line ending.
WidePaste ==
    bracketedPasteStart \o <<240, 159, 152, 128>> \o <<226, 130, 172>>
    \o bracketedPasteEnd

\* The raw chunks: a 2-byte character, Backspace, ^U, Enter and the paste.
BufferChunks == {<<195, 169>>, <<127>>, <<21>>, <<13>>, WidePaste}

\* The application calls SetLineMode(enabled), whatever the mode is.
BufferSetLineMode(enabled) == SetLineMode(enabled)

InitBuffer ==
    /\ InitHandler(FALSE, FALSE, 1, FALSE, FALSE)
    /\ scenario = [kind |-> "buffer"]
    /\ script = << >>

NextBuffer ==
    \/ \E data \in BufferChunks : RecvChunk(data)
    \/ \E enabled \in BOOLEAN : BufferSetLineMode(enabled)

SpecBuffer == InitBuffer /\ [][NextBuffer]_vars

RECURSIVE Sum(_)
\* The sum of a sequence of numbers.
Sum(ns) == IF ns = << >> THEN 0 ELSE Head(ns) + Sum(Tail(ns))

\* C39: the entries of charByteLengths add up to len(currentLine) and each
\* is between 1 and 4.
C39_LengthsMatchLine ==
    /\ Sum(charByteLengths) = Len(currentLine)
    /\ \A i \in 1..Len(charByteLengths) : charByteLengths[i] \in 1..4

\* C39 witness: the paste was spliced into the line, a 2-byte character was
\* typed after it and taken away again with Backspace; the line holds the
\* two pasted characters, of 4 and 3 bytes.
C39_Witness ==
    /\ scenario.kind = "buffer"
    /\ inLineReadMode
    /\ consumed = WidePaste \o <<195, 169, 127>>
    /\ charByteLengths = <<4, 3>>
    /\ currentLine = <<240, 159, 152, 128, 226, 130, 172>>

\* ------------------------------------------------------------------------
\* SpecLock: h.mu around the callbacks
\* ------------------------------------------------------------------------

\* The raw chunks: a letter, Enter, ^C and a paste whose content is one CR.
LockPaste == bracketedPasteStart \o <<13>> \o bracketedPasteEnd

LockChunks == {B("a"), <<13>>, <<3>>, LockPaste}

\* The key emitKey is called with for a chunk of one byte.
LockKey(chunk) ==
    IF chunk = <<13>> THEN B("Enter") ELSE IF chunk = <<3>> THEN B("^C") ELSE chunk

\* What a callback does: nothing with the handler, or one call of a method
\* that takes h.mu.
CallbackCalls ==
    {"nothing", "SetLineMode(true)", "SetLineMode(false)", "IsLineMode",
     "IsRunning", "SetEchoWriter", "Stop"}

\* The places where the worker calls h.mu.Lock(), each with the place after.
LockPcs ==
    ("emitKey:Lock1" :> "emitKey:Unlock1") @@ ("emitKey:Lock2" :> "emitKey:Unlock2")
    @@ ("emitPaste:Lock" :> "emitPaste:Unlock")
    @@ ("line:Lock" :> "line:body") @@ ("line:Relock" :> "line:return")
    @@ ("paste:Lock" :> "paste:body") @@ ("paste:Relock" :> "paste:return")

\* The places where the worker calls h.mu.Unlock() and does nothing else
\* with the handler's fields, each with the place after: after the read of
\* decodeMacOSOption in emitKey, and the deferred Unlock of
\* handleLineAssembly and of handlePasteLineAssembly.
UnlockPcs ==
    ("emitKey:Unlock1" :> "OnKey") @@ ("line:return" :> "idle")
    @@ ("paste:return" :> "idle")

\* The places where the worker calls a callback, each with the place after.
CallbackPcs ==
    ("OnKey" :> "emitKey:Lock2") @@ ("OnLine" :> "line:Relock")
    @@ ("paste:OnLine" :> "paste:Relock") @@ ("OnPasteChunk" :> "OnPaste")
    @@ ("OnPaste" :> "emitPaste:Lock")

\* The worker goes to place pc with holder holding h.mu and the handler's
\* fields st; it keeps its key.
LockGoes(pc, holder, st) ==
    /\ emitPc' = pc
    /\ mu' = holder
    /\ Becomes(st)
    /\ UNCHANGED <<emitPending, script, scenario, consumed, nchunks, timeoutsAt,
                   running, stopClosed, readers, rawBytes, calls>>

\* The worker has decoded a raw chunk: processByte calls emitKey with the
\* key, or, for the paste, has come to the end marker.
LockBegin(chunk) ==
    /\ emitPc = "idle"
    /\ nchunks < MaxChunks
    /\ nchunks' = nchunks + 1
    /\ UNCHANGED consumed
    /\ IF chunk = LockPaste
       THEN /\ emitPending' = <<13>>
            /\ emitPc' = IF onPasteChunkSet THEN "OnPasteChunk" ELSE "OnPaste"
       ELSE /\ emitPending' = LockKey(chunk)
            /\ emitPc' = "emitKey:Lock1"
    /\ Becomes(Cur)
    /\ UNCHANGED <<mu, script, scenario, timeoutsAt, running, stopClosed, readers,
                   workers, rawBytes, calls>>

\* h.mu.Lock() by the worker: it goes on when nobody holds the mutex.
WorkerLock ==
    /\ emitPc \in DOMAIN LockPcs
    /\ mu = "none"
    /\ LockGoes(LockPcs[emitPc], "worker", Cur)
    /\ UNCHANGED workers

\* h.mu.Unlock() by the worker.
WorkerUnlock ==
    /\ emitPc \in DOMAIN UnlockPcs
    /\ mu = "worker"
    /\ LockGoes(UnlockPcs[emitPc], "none", Cur)
    /\ UNCHANGED workers

\* inLineMode := h.inLineReadMode and h.mu.Unlock() in emitKey; the key goes
\* to handleLineAssembly or to the send on h.Keys.
LockReadMode ==
    /\ emitPc = "emitKey:Unlock2"
    /\ mu = "worker"
    /\ LockGoes(IF inLineReadMode THEN "line:Lock" ELSE "send", "none", Cur)
    /\ UNCHANGED workers

\* The send on h.Keys, dropping the oldest key when the channel is full.
LockKeysSend ==
    /\ emitPc = "send"
    /\ LockGoes("idle", mu, [Cur EXCEPT !.Keys = SendDropOldest(@, KeyBufferSize,
                                                                emitPending)])
    /\ UNCHANGED workers

\* handleLineAssembly that keeps h.mu until the function returns.
LineBodyKeepsLock ==
    /\ emitPc = "line:body"
    /\ mu = "worker"
    /\ IF ~inLineReadMode
       THEN LockGoes("line:return", "worker", Cur) /\ UNCHANGED workers
       ELSE IF emitPending = B("Enter")
       THEN /\ LockGoes("line:send", "worker",
                        [Cur EXCEPT !.currentLine = << >>, !.charByteLengths = << >>])
            /\ workers' = [workers EXCEPT ![1].line = currentLine]
       ELSE IF emitPending = B("^C")
       THEN /\ LockGoes("interrupt:send", "worker",
                        [Cur EXCEPT !.currentLine = << >>, !.charByteLengths = << >>])
            /\ workers' = [workers EXCEPT ![1].line = << >>]
       ELSE /\ LockGoes("line:return", "worker",
                        [Cur EXCEPT !.currentLine = @ \o emitPending,
                                    !.charByteLengths = Append(@, Len(emitPending))])
            /\ UNCHANGED workers

\* handleLineAssembly with h.mu held, up to its first Unlock or its return:
\* nothing outside line mode; Enter and ^C empty the line and release the
\* mutex before the send; a printable key is added to the line.
LineBody ==
    /\ emitPc = "line:body"
    /\ mu = "worker"
    /\ IF ~inLineReadMode
       THEN LockGoes("line:return", "worker", Cur) /\ UNCHANGED workers
       ELSE IF emitPending = B("Enter")
       THEN /\ LockGoes("line:send", "none",
                        [Cur EXCEPT !.currentLine = << >>, !.charByteLengths = << >>])
            /\ workers' = [workers EXCEPT ![1].line = currentLine]
       ELSE IF emitPending = B("^C")
       THEN /\ LockGoes("interrupt:send", "none",
                        [Cur EXCEPT !.currentLine = << >>, !.charByteLengths = << >>])
            /\ workers' = [workers EXCEPT ![1].line = << >>]
       ELSE /\ LockGoes("line:return", "worker",
                        [Cur EXCEPT !.currentLine = @ \o emitPending,
                                    !.charByteLengths = Append(@, Len(emitPending))])
            /\ UNCHANGED workers

\* The send of the completed line on h.Lines, dropping the oldest line when
\* the channel is full, in handleLineAssembly and in handlePasteLineAssembly.
LockLineSend ==
    /\ emitPc \in {"line:send", "paste:send"}
    /\ LockGoes(IF emitPc = "line:send" THEN "OnLine" ELSE "paste:OnLine", mu,
                [Cur EXCEPT !.Lines = SendDropOldest(@, LineBufferSize,
                                                     workers[1].line)])
    /\ UNCHANGED workers

\* The send of the empty line after ^C, given up when h.Lines is full.
LockInterruptSend ==
    /\ emitPc = "interrupt:send"
    /\ LockGoes("OnLine", mu,
                [Cur EXCEPT !.Lines = IF Len(@) < LineBufferSize
                                      THEN Append(@, << >>) ELSE @])
    /\ UNCHANGED workers

\* inLineMode := h.inLineReadMode and h.mu.Unlock() in emitPaste; the content
\* goes to handlePasteLineAssembly or, its CR as the key Enter, to emitKey.
LockPasteReadMode ==
    /\ emitPc = "emitPaste:Unlock"
    /\ mu = "worker"
    /\ emitPc' = IF inLineReadMode THEN "paste:Lock" ELSE "emitKey:Lock1"
    /\ emitPending' = IF inLineReadMode THEN emitPending ELSE B("Enter")
    /\ mu' = "none"
    /\ Becomes(Cur)
    /\ UNCHANGED <<script, scenario, consumed, nchunks, timeoutsAt, running,
                   stopClosed, readers, workers, rawBytes, calls>>

\* handlePasteLineAssembly with h.mu held: nothing outside line mode; the CR
\* of the content empties the line and releases the mutex before the send.
PasteBody ==
    /\ emitPc = "paste:body"
    /\ mu = "worker"
    /\ IF ~inLineReadMode
       THEN LockGoes("paste:return", "worker", Cur) /\ UNCHANGED workers
       ELSE /\ LockGoes("paste:send", "none",
                        [Cur EXCEPT !.currentLine = << >>, !.charByteLengths = << >>])
            /\ workers' = [workers EXCEPT ![1].line = currentLine]

\* The handler's fields after the method a callback calls has run.
AfterCall(api) ==
    CASE api = "SetLineMode(true)" ->
             [Cur EXCEPT !.inLineReadMode = TRUE, !.currentLine = << >>,
                         !.charByteLengths = << >>]
      [] api = "SetLineMode(false)" -> [Cur EXCEPT !.inLineReadMode = FALSE]
      [] api = "SetEchoWriter" -> [Cur EXCEPT !.echoSet = TRUE]
      [] OTHER -> Cur

\* The worker calls the callback, which calls api: the method takes h.mu,
\* so it goes on when nobody holds the mutex, and releases it.
LockCallback(api) ==
    /\ emitPc \in DOMAIN CallbackPcs
    /\ api = "nothing" \/ mu = "none"
    /\ emitPc' = CallbackPcs[emitPc]
    /\ Becomes(AfterCall(api))
    /\ running' = IF api = "Stop" THEN FALSE ELSE running
    /\ stopClosed' = IF api = "Stop" /\ running THEN TRUE ELSE stopClosed
    /\ UNCHANGED <<mu, emitPending, script, scenario, consumed, nchunks,
                   timeoutsAt, readers, workers, rawBytes, calls>>

\* Another goroutine calls SetLineMode: h.mu.Lock().
CallerLock ==
    /\ mu = "none"
    /\ mu' = "caller"
    /\ Becomes(Cur)
    /\ UNCHANGED <<emitPc, emitPending, script, scenario, consumed, nchunks,
                   timeoutsAt, running, stopClosed, readers, workers, rawBytes,
                   calls>>

\* SetLineMode(enabled) of the other goroutine, up to its deferred Unlock.
CallerUnlock(enabled) ==
    /\ mu = "caller"
    /\ mu' = "none"
    /\ Becomes(AfterCall(IF enabled THEN "SetLineMode(true)"
                         ELSE "SetLineMode(false)"))
    /\ UNCHANGED <<emitPc, emitPending, script, scenario, consumed, nchunks,
                   timeoutsAt, running, stopClosed, readers, workers, rawBytes,
                   calls>>

InitLock ==
    /\ \E onChunk \in BOOLEAN : InitHandler(FALSE, FALSE, 1, onChunk, FALSE)
    /\ scenario = [kind |-> "lock"]
    /\ script = << >>

\* One step of the worker inside emitKey, emitPaste or the line assembly.
LockWorkerStep ==
    \/ WorkerLock
    \/ WorkerUnlock
    \/ LockReadMode
    \/ LockKeysSend
    \/ LineBody
    \/ LockLineSend
    \/ LockInterruptSend
    \/ LockPasteReadMode
    \/ PasteBody
    \/ \E api \in CallbackCalls : LockCallback(api)

NextLock ==
    \/ \E chunk \in LockChunks : LockBegin(chunk)
    \/ WorkerLock
    \/ WorkerUnlock
    \/ LockReadMode
    \/ LockKeysSend
    \/ LineBody
    \/ LockLineSend
    \/ LockInterruptSend
    \/ LockPasteReadMode
    \/ PasteBody
    \/ \E api \in CallbackCalls : LockCallback(api)
    \/ CallerLock
    \/ \E enabled \in BOOLEAN : CallerUnlock(enabled)

\* The scheduler runs the worker, and sync.Mutex lets a goroutine that waits
\* in Lock have the mutex in the end; the other goroutine returns from
\* SetLineMode.  Nothing obliges the input source to deliver.
FairLock ==
    /\ SF_vars(LockWorkerStep)
    /\ WF_vars(\E enabled \in BOOLEAN : CallerUnlock(enabled))

SpecLock == InitLock /\ [][NextLock]_vars /\ FairLock

\* C40: at every place where the worker calls OnKey, OnLine, OnPaste or
\* OnPasteChunk it does not hold h.mu, it never calls Lock while it holds
\* h.mu, and whatever method the callbacks call, the worker gets through
\* emitKey and emitPaste and is back in its loop.
C40_CallbacksOutsideLock ==
    /\ [](emitPc \in DOMAIN CallbackPcs => mu # "worker")
    /\ [](emitPc \in DOMAIN LockPcs => mu # "worker")
    /\ [](emitPc = "idle" => mu # "worker")
    /\ (emitPc # "idle") ~> (emitPc = "idle")

\* C40 witness: OnLine, called for a line completed with Enter, has called
\* Stop; the worker is back at the Lock of handleLineAssembly and nobody
\* holds the mutex.
C40_Witness ==
    /\ scenario.kind = "lock"
    /\ emitPc = "line:Relock"
    /\ emitPending = B("Enter")
    /\ workers[1].line = B("a")
    /\ stopClosed
    /\ ~running
    /\ mu = "none"

====
